---- MODULE Spec2Model ----
(***************************************************************************)
(* A model of the gb-emu core: the LR35902 CPU runner (a generator that    *)
(* yields once per M-cycle), the chips on the bus (PPU, Memory, Cart,      *)
(* Timer, Joypad) and Gameboy::clock, which clocks the CPU and then every  *)
(* chip and assembles the CPU's next input pins.                           *)
(*                                                                         *)
(* Three specifications share the variables:                               *)
(*   SpecCpu  the CPU runner alone, resumed with arbitrary input pins, as  *)
(*            the instruction tests drive it (CpuRunner::clock);           *)
(*   SpecNop  the CPU runner fed a stream of NOP opcodes;                  *)
(*   Spec     the whole machine (Gameboy::clock) running a ROM, with the   *)
(*            host pressing and releasing buttons between clock calls.     *)
(***************************************************************************)
EXTENDS Integers, Sequences, FiniteSets, TLC

VARIABLES
    cpu,              \* Cpu: registers a f b c d e h l sp pc, and ime
    gen,              \* the CPU generator: the yield it is suspended at, and its live locals
    cpu_out,          \* CpuOutputPins the last CpuRunner::clock call returned
    panicked,         \* a clock call has panicked (todo!(), panic!(), overflow check)
    overflow_checks,  \* build profile: TRUE = debug (arithmetic overflow panics), FALSE = release (wraps)
    obs,              \* observer: opcode and clock calls of the instruction in progress, and of the last one finished
    cpu_input,        \* Gameboy.cpu_input: the pins the next CPU clock receives
    interrupt_enable, \* Gameboy.interrupt_enable (IE)
    interrupt_request,\* Gameboy.interrupt_request (IF)
    timer,            \* Timer: div tima tma tac (and n, the clock calls it has received)
    joypad,           \* Joypad: the held buttons, and p1 (and n)
    ppu,              \* PpuState registers and irq lines, and the PPU generator's position and locals
    memory,           \* Memory: work RAM and high RAM (the bytes written so far; all others are 0)
    rom,              \* Cart (ROM only): the ROM image (the bytes that are not 0)
    raised,           \* observer: the interrupt requests the chips raised during the last clock call
    pending,          \* observer: the interrupt pins the CPU had when it last began a dispatch
    clocks            \* number of clock calls made so far

cpuVars == <<cpu, gen, cpu_out, panicked, overflow_checks, obs>>
busVars == <<cpu_input, interrupt_enable, interrupt_request, timer, joypad, ppu, memory, rom, raised, pending>>
vars == <<cpu, gen, cpu_out, panicked, overflow_checks, obs, cpu_input, interrupt_enable,
          interrupt_request, timer, joypad, ppu, memory, rom, raised, pending, clocks>>

----------------------------------------------------------------------------
(* Fixed-width arithmetic and bit operations on u8 / u16 values.           *)

U8(x) == x % 256
U16(x) == x % 65536

\* bit n of v
Bit(v, n) == (v \div (2 ^ n)) % 2

\* v & w, v | w, v ^ w on 8-bit values
And8(v, w) ==
    Bit(v,0)*Bit(w,0) + 2*Bit(v,1)*Bit(w,1) + 4*Bit(v,2)*Bit(w,2) + 8*Bit(v,3)*Bit(w,3)
    + 16*Bit(v,4)*Bit(w,4) + 32*Bit(v,5)*Bit(w,5) + 64*Bit(v,6)*Bit(w,6) + 128*Bit(v,7)*Bit(w,7)
Or8(v, w) == v + w - And8(v, w)
Xor8(v, w) == v + w - 2 * And8(v, w)
Not8(v) == 255 - v

\* u8 as i8 (as i16): the signed value of a byte
AsI8(v) == IF v >= 128 THEN v - 256 ELSE v
\* u16 as i16
AsI16(v) == IF v >= 32768 THEN v - 65536 ELSE v

Hi(v) == v \div 256
Lo(v) == v % 256
Word(hi, lo) == hi * 256 + lo

----------------------------------------------------------------------------
(* FRegister: the flag register, a byte whose low nybble is kept 0.        *)

ZERO == 128
NEGATIVE == 64
HALFCARRY == 32
CARRY == 16
EMPTY == 0

\* a conversion that keeps all eight bits of the byte
FFromU8_NoMask(v) == v
\* impl From<u8> for FRegister: v & 0xF0
FFromU8(v) == v - (v % 16)
\* impl Not for FRegister: (!self.0) & 0xF0
FNot(f) == FFromU8(Not8(f))
\* FRegister::contains: self.0 | other.0 != 0  (| binds tighter than != in Rust)
contains(f, other) == Or8(f, other) # 0
\* FRegister::set: self | other
set(f, other) == Or8(f, other)
\* FRegister::unset: self & !other
unset(f, other) == And8(f, FNot(other))
\* FRegister::set_value
set_value(f, flags, value) == IF value THEN set(f, flags) ELSE unset(f, flags)

----------------------------------------------------------------------------
(* Registers: paired views.                                                *)

get_af(m) == Word(m.a, m.f)
get_bc(m) == Word(m.b, m.c)
get_de(m) == Word(m.d, m.e)
get_hl(m) == Word(m.h, m.l)
set_af(m, v) == [m EXCEPT !.a = Hi(v), !.f = FFromU8(Lo(v))]
set_bc(m, v) == [m EXCEPT !.b = Hi(v), !.c = Lo(v)]
set_de(m, v) == [m EXCEPT !.d = Hi(v), !.e = Lo(v)]
set_hl(m, v) == [m EXCEPT !.h = Hi(v), !.l = Lo(v)]

\* LoadDest16Bit via decode::rp (BC DE HL SP) and decode::rp2 (BC DE HL AF)
rp(i) == CASE i = 0 -> "BC" [] i = 1 -> "DE" [] i = 2 -> "HL" [] i = 3 -> "SP"
rp2(i) == CASE i = 0 -> "BC" [] i = 1 -> "DE" [] i = 2 -> "HL" [] i = 3 -> "AF"
\* FlagCondition via decode::cc (NZ Z NC C)
cc(i) == CASE i = 0 -> "NZ" [] i = 1 -> "Z" [] i = 2 -> "NC" [] i = 3 -> "C"
\* RotateShiftOperation via decode::rot
rot(i) == CASE i = 0 -> "RLC" [] i = 1 -> "RRC" [] i = 2 -> "RL" [] i = 3 -> "RR"
            [] i = 4 -> "SLA" [] i = 5 -> "SRA" [] i = 6 -> "SWAP" [] i = 7 -> "SRL"
\* MathOperation via decode::alu
alu(i) == CASE i = 0 -> "Add" [] i = 1 -> "Adc" [] i = 2 -> "Sub" [] i = 3 -> "Sbc"
            [] i = 4 -> "And" [] i = 5 -> "Xor" [] i = 6 -> "Or" [] i = 7 -> "Cp"

store_16_bits(m, v, dest) ==
    CASE dest = "AF" -> set_af(m, v)
      [] dest = "BC" -> set_bc(m, v)
      [] dest = "DE" -> set_de(m, v)
      [] dest = "HL" -> set_hl(m, v)
      [] dest = "SP" -> [m EXCEPT !.sp = v]

read_16_bits(m, from) ==
    CASE from = "AF" -> get_af(m)
      [] from = "BC" -> get_bc(m)
      [] from = "DE" -> get_de(m)
      [] from = "HL" -> get_hl(m)
      [] from = "SP" -> m.sp

\* Opcode::x y z p q
OpX(op) == op \div 64
OpY(op) == (op \div 8) % 8
OpZ(op) == op % 8
OpP(op) == OpY(op) \div 2
OpQ(op) == OpY(op) % 2

\* read_8_bits! / store_8_bits! for a register of the r table (index 6, (HL), yields and is
\* handled where it is used)
get_r(m, i) ==
    CASE i = 0 -> m.b [] i = 1 -> m.c [] i = 2 -> m.d [] i = 3 -> m.e
      [] i = 4 -> m.h [] i = 5 -> m.l [] i = 7 -> m.a
set_r(m, i, v) ==
    CASE i = 0 -> [m EXCEPT !.b = v] [] i = 1 -> [m EXCEPT !.c = v]
      [] i = 2 -> [m EXCEPT !.d = v] [] i = 3 -> [m EXCEPT !.e = v]
      [] i = 4 -> [m EXCEPT !.h = v] [] i = 5 -> [m EXCEPT !.l = v]
      [] i = 7 -> [m EXCEPT !.a = v]

test_condition(m, c) ==
    CASE c = "NZ" -> ~contains(m.f, ZERO)
      [] c = "Z" -> contains(m.f, ZERO)
      [] c = "NC" -> ~contains(m.f, CARRY)
      [] c = "C" -> contains(m.f, CARRY)

----------------------------------------------------------------------------
(* The ALU.                                                                *)

\* a.overflowing_add(v): <<sum, overflow>>
overflowing_add(a, v) == <<U8(a + v), a + v > 255>>

\* the flags do_math leaves for an addition: N cleared, Z, H from the low nybbles, C
AddFlags(f, a, v, sum, overflow) ==
    set_value(set_value(set_value(unset(f, NEGATIVE), ZERO, sum = 0),
                        HALFCARRY, (a % 16) + (v % 16) >= 16), CARRY, overflow)

\* the flags do_math leaves for a subtraction done as an addition of nv = -v: N set
SubFlags(f, a, nv, sum, overflow) ==
    set_value(set_value(set_value(set(f, NEGATIVE), ZERO, sum = 0),
                        HALFCARRY, (a % 16) + (nv % 16) >= 16), CARRY, overflow)

\* the flags of AND (H set) and of XOR / OR (H cleared)
LogicFlags(f, new_a, half) ==
    unset(set_value(set_value(unset(f, NEGATIVE), ZERO, new_a = 0), HALFCARRY, half), CARRY)

\* the carry ADC and SBC add in
CarryIn(f) == IF contains(f, CARRY) THEN 1 ELSE 0

do_math(m, v, operation) ==
    LET a == m.a
        nv == U8(Not8(v) + 1)
        s1 == overflowing_add(a, v)
        s2 == overflowing_add(s1[1], CarryIn(m.f))
        sn == overflowing_add(a, nv)
    IN CASE operation = "Add" ->
              [m EXCEPT !.a = s1[1], !.f = AddFlags(m.f, a, v, s1[1], s1[2])]
         [] operation \in {"Adc", "Sbc"} ->
              [m EXCEPT !.a = s2[1], !.f = AddFlags(m.f, a, v, s2[1], s1[2] \/ s2[2])]
         [] operation = "Sub" ->
              [m EXCEPT !.a = sn[1], !.f = SubFlags(m.f, a, nv, sn[1], sn[2])]
         [] operation = "And" ->
              [m EXCEPT !.a = And8(a, v), !.f = LogicFlags(m.f, And8(a, v), TRUE)]
         [] operation = "Xor" ->
              [m EXCEPT !.a = Xor8(a, v), !.f = LogicFlags(m.f, Xor8(a, v), FALSE)]
         [] operation = "Or" ->
              [m EXCEPT !.a = Or8(a, v), !.f = LogicFlags(m.f, Or8(a, v), FALSE)]
         [] operation = "Cp" ->
              [m EXCEPT !.f = SubFlags(m.f, a, nv, sn[1], sn[2])]

rotate_left(v) == U8(v * 2) + Bit(v, 7)
rotate_right(v) == (v \div 2) + 128 * Bit(v, 0)

\* the flags every rotate and shift leaves: Z, N and H cleared, C
RotFlags(f, z, c) ==
    set_value(unset(unset(set_value(f, ZERO, z), NEGATIVE), HALFCARRY), CARRY, c)

\* do_rotate_shift: <<new value, new flags>>.  overflowing_shl(1) and overflowing_shr(1)
\* report an overflow of the shift amount, which 1 never is: c is false for RL RR SLA SRA SRL.
do_rotate_shift(m, v, op) ==
    LET shl == U8(v * 2)
        shr == v \div 2
        res == CASE op = "RLC" -> <<rotate_left(v), Bit(v, 7) = 1>>
                 [] op = "RRC" -> <<rotate_right(v), Bit(v, 0) = 1>>
                 [] op = "RL" -> <<Or8(shl, CarryIn(m.f)), FALSE>>
                 [] op = "RR" -> <<Or8(shr, 128 * CarryIn(m.f)), FALSE>>
                 [] op = "SLA" -> <<shl, FALSE>>
                 [] op = "SRA" -> <<Or8(shr, 128 * Bit(v, 7)), FALSE>>
                 [] op = "SWAP" -> <<(v % 16) * 16 + (v \div 16), FALSE>>
                 [] op = "SRL" -> <<shr, FALSE>>
    IN <<res[1], RotFlags(m.f, res[1] = 0, res[2])>>

----------------------------------------------------------------------------
(* CPU pins.                                                               *)

\* CpuOutputPins
ReadPins(addr) == [addr |-> addr, data |-> 0, is_read |-> TRUE]
WritePins(addr, data) == [addr |-> addr, data |-> data, is_read |-> FALSE]

\* Cpu::read_byte, Cpu::write_byte, Cpu::nop
read_byte(addr) == ReadPins(addr)
write_byte(addr, data) == WritePins(addr, data)
nop == ReadPins(0)

\* CpuInputPins
InputPins(data, irq) ==
    [data |-> data,
     interrupt_40h |-> Bit(irq, 0) = 1, interrupt_48h |-> Bit(irq, 1) = 1,
     interrupt_50h |-> Bit(irq, 2) = 1, interrupt_58h |-> Bit(irq, 3) = 1,
     interrupt_60h |-> Bit(irq, 4) = 1]

----------------------------------------------------------------------------
(* The CPU generator, cpu_runner_gen.  The machine record m joins the Cpu  *)
(* (a f b c d e h l sp pc ime), the generator's state (ph, the source line *)
(* of the yield it is suspended at; its live locals op cb lo hi v c1 c2    *)
(* vec taken), the pins of the last yield (out), whether the resume        *)
(* panicked (panic), and an observer (n: the yields of the instruction or  *)
(* interrupt service routine in progress; last: the last one finished;     *)
(* count: instructions finished; p, s: PC and SP when the interrupt being  *)
(* served was accepted; ime0: IME when the unit in progress began; pc0:    *)
(* the PC the runner was created with).                                    *)

\* cpu_yield!(out): suspend at the yield of source line ph
Yield(m, ph, out) == [m EXCEPT !.ph = ph, !.out = out, !.n = m.n + 1]

\* todo!(), panic!(), and arithmetic overflow in a build with overflow checks
Panic(m) == [m EXCEPT !.panic = TRUE]

\* the interrupt the pins select: Some(vector), or None (0)
Interrupt(pins) ==
    IF pins.interrupt_40h THEN 64
    ELSE IF pins.interrupt_48h THEN 72
    ELSE IF pins.interrupt_50h THEN 80
    ELSE IF pins.interrupt_58h THEN 88
    ELSE IF pins.interrupt_60h THEN 96
    ELSE 0

\* a fetch that leaves PC where it was
FetchAt_NoIncrement(m, ph) == Yield(m, ph, ReadPins(m.pc))

\* cpu_yield!(cpu.fetch_byte()) suspended at line ph
FetchAt(m, ph) == Yield([m EXCEPT !.pc = U16(m.pc + 1)], ph, ReadPins(m.pc))

\* the top of the loop: the interrupt check with the pins of this resume, then the
\* opcode fetch.  Entering the service routine suspends at its first wait.
LoopTop(m, pins) ==
    LET m0 == [m EXCEPT !.op = 0, !.cb = 0, !.lo = 0, !.hi = 0, !.v = 0, !.c1 = FALSE,
                        !.c2 = FALSE, !.vec = 0, !.taken = FALSE, !.n = 0, !.p = 0, !.s = 0,
                        !.ime0 = m.ime]
    IN IF m0.ime /\ Interrupt(pins) # 0
       THEN Yield([m0 EXCEPT !.vec = Interrupt(pins), !.unit = "isr", !.p = m.pc, !.s = m.sp],
                  "L431", nop)
       ELSE FetchAt([m0 EXCEPT !.unit = "instr"], "L453")

\* `continue`, or falling off the end of the match: the instruction is finished
End(m, pins) ==
    LoopTop([m EXCEPT !.last = [unit |-> "instr", op |-> m.op, cb |-> m.cb, n |-> m.n,
                                 taken |-> m.taken, vec |-> 0, ime0 |-> m.ime0],
                      !.count = m.count + 1], pins)

\* a service routine that pushes the low byte of PC first
ResumeIsr_LowByteFirst(m, pins) ==
    CASE m.ph = "L431" -> Yield(m, "L432", nop)
      [] m.ph = "L432" ->
           Yield([m EXCEPT !.lo = Lo(m.pc), !.hi = Hi(m.pc), !.sp = U16(m.sp + 65535)],
                 "L439", write_byte(U16(m.sp + 65535), Lo(m.pc)))
      [] m.ph = "L439" ->
           Yield([m EXCEPT !.sp = U16(m.sp + 65535)], "L441", write_byte(U16(m.sp + 65535), m.hi))
      [] m.ph = "L441" ->
           Yield([m EXCEPT !.pc = m.vec, !.ime = FALSE], "L448", nop)
      [] m.ph = "L448" ->
           FetchAt([m EXCEPT !.last = [unit |-> "isr", op |-> 0, cb |-> 0, n |-> m.n,
                                       taken |-> FALSE, vec |-> m.vec, ime0 |-> m.ime0],
                             !.n = 0, !.unit = "instr", !.vec = 0, !.lo = 0, !.hi = 0,
                             !.ime0 = m.ime], "L453")

\* a service routine with a single wait before the pushes
ResumeIsr_OneWait(m, pins) ==
    CASE m.ph = "L431" ->
           Yield([m EXCEPT !.lo = Lo(m.pc), !.hi = Hi(m.pc), !.sp = U16(m.sp + 65535)],
                 "L439", write_byte(U16(m.sp + 65535), Hi(m.pc)))
      [] m.ph = "L439" ->
           Yield([m EXCEPT !.sp = U16(m.sp + 65535)], "L441", write_byte(U16(m.sp + 65535), m.lo))
      [] m.ph = "L441" ->
           Yield([m EXCEPT !.pc = m.vec, !.ime = FALSE], "L448", nop)
      [] m.ph = "L448" ->
           FetchAt([m EXCEPT !.last = [unit |-> "isr", op |-> 0, cb |-> 0, n |-> m.n,
                                       taken |-> FALSE, vec |-> m.vec, ime0 |-> m.ime0],
                             !.n = 0, !.unit = "instr", !.vec = 0, !.lo = 0, !.hi = 0,
                             !.ime0 = m.ime], "L453")

\* the interrupt service routine, lines 427-449, then the fetch of line 453
ResumeIsr(m, pins) ==
    CASE m.ph = "L431" -> Yield(m, "L432", nop)
      [] m.ph = "L432" ->
           Yield([m EXCEPT !.lo = Lo(m.pc), !.hi = Hi(m.pc), !.sp = U16(m.sp + 65535)],
                 "L439", write_byte(U16(m.sp + 65535), Hi(m.pc)))
      [] m.ph = "L439" ->
           Yield([m EXCEPT !.sp = U16(m.sp + 65535)], "L441", write_byte(U16(m.sp + 65535), m.lo))
      [] m.ph = "L441" ->
           Yield([m EXCEPT !.pc = m.vec, !.ime = FALSE], "L448", nop)
      [] m.ph = "L448" ->
           FetchAt([m EXCEPT !.last = [unit |-> "isr", op |-> 0, cb |-> 0, n |-> m.n,
                                       taken |-> FALSE, vec |-> m.vec, ime0 |-> m.ime0],
                             !.n = 0, !.unit = "instr", !.vec = 0, !.lo = 0, !.hi = 0,
                             !.ime0 = m.ime], "L453")

Inc16(v) == U16(v + 1)
Dec16(v) == U16(v + 65535)

\* (pc as i16 + offset as i16) as u16, and whether the i16 addition overflows
RelSum(m, data) == AsI16(m.pc) + AsI8(data)
RelOverflow(m, data) == RelSum(m, data) < -32768 \/ RelSum(m, data) > 32767

\* JR: set PC, then one more cycle at the yield of line ph
RelJump(m, data, ph) ==
    IF RelOverflow(m, data) /\ m.oc
    THEN Panic(m)
    ELSE Yield([m EXCEPT !.pc = U16(RelSum(m, data) + 65536), !.taken = TRUE], ph, nop)

\* LD to / from memory through BC, DE, HL+, HL-: the match is on opcode.y(), which is
\* 0 2 4 6 for the stores and 1 3 5 7 for the loads; 4..7 fall to unreachable!()
IndValid(m) == OpY(m.op) <= 3
IndAddr(m) ==
    CASE OpY(m.op) = 0 -> get_bc(m)
      [] OpY(m.op) = 1 -> get_de(m)
      [] OpY(m.op) \in {2, 3} -> get_hl(m)
IndStep(m) ==
    CASE OpY(m.op) = 2 -> set_hl(m, Inc16(get_hl(m)))
      [] OpY(m.op) = 3 -> set_hl(m, Dec16(get_hl(m)))
      [] OpY(m.op) \in {0, 1} -> m

\* 8 bit INC and DEC of the value v: the flags, then store_8_bits! suspended at line ph
IncFlags(f, v) ==
    set_value(unset(set_value(f, ZERO, U8(v + 1) = 0), NEGATIVE), HALFCARRY, v % 16 = 15)
DecFlags(f, v) ==
    set_value(set(set_value(f, ZERO, U8(v + 255) = 0), NEGATIVE), HALFCARRY, v % 16 # 0)

\* store_8_bits!(cpu, v, dst) then `continue`: an (HL) destination suspends at line ph
Store8(m, v, dst, ph, pins) ==
    IF dst = 6 THEN Yield(m, ph, write_byte(get_hl(m), v)) ELSE End(set_r(m, dst, v), pins)

Inc8(m, v, pins) == Store8([m EXCEPT !.f = IncFlags(m.f, v)], U8(v + 1), OpY(m.op), "L632", pins)
Dec8(m, v, pins) == Store8([m EXCEPT !.f = DecFlags(m.f, v)], U8(v + 255), OpY(m.op), "L650", pins)

\* RLCA RRCA RLA RRA: rotate A, then f.unset(f) clears every flag
RotA(m, op) == [m EXCEPT !.a = do_rotate_shift(m, m.a, op)[1], !.f = unset(do_rotate_shift(m, m.a, op)[2], do_rotate_shift(m, m.a, op)[2])]

\* DAA
Daa(m) ==
    LET f == m.f
        add1 == contains(f, CARRY) \/ m.a > 153
        a1 == IF add1 THEN U8(m.a + 96) ELSE m.a
        f1 == IF add1 THEN set(f, CARRY) ELSE f
        a2 == IF contains(f1, HALFCARRY) \/ (a1 % 16) > 9 THEN U8(a1 + 6) ELSE a1
        s1 == IF contains(f, CARRY) THEN U8(m.a + 160) ELSE m.a
        s2 == IF contains(f, HALFCARRY) THEN U8(s1 + 250) ELSE s1
        a == IF ~contains(f, NEGATIVE) THEN a2 ELSE s2
        fo == IF ~contains(f, NEGATIVE) THEN f1 ELSE f
    IN [m EXCEPT !.a = a, !.f = unset(set_value(fo, ZERO, a = 0), HALFCARRY)]

\* a 16-bit ADD whose half carry is the carry out of bit 11
AddHl_Bit11(m) ==
    LET addend == read_16_bits(m, rp(OpP(m.op)))
    IN [m EXCEPT !.c1 = (get_hl(m) % 4096) + (addend % 4096) > 4095,
                 !.v = U16(get_hl(m) + addend),
                 !.c2 = get_hl(m) + addend > 65535]

\* 16-bit ADD: the half carry is the carry out of the low byte
AddHl(m) ==
    LET addend == read_16_bits(m, rp(OpP(m.op)))
    IN [m EXCEPT !.c1 = Lo(addend) + m.l > 255,
                 !.v = U16(get_hl(m) + addend),
                 !.c2 = get_hl(m) + addend > 65535]

\* opcode.x() == 0
DecodeX0(m, pins) ==
    LET y == OpY(m.op)
        z == OpZ(m.op)
        q == OpQ(m.op)
        p == OpP(m.op)
    IN CASE z = 0 /\ y = 0 -> End(m, pins)
         [] z = 0 /\ y = 1 -> FetchAt(m, "L469")
         [] z = 0 /\ y = 2 -> Panic(m)
         [] z = 0 /\ y = 3 -> FetchAt(m, "L487")
         [] z = 0 /\ y >= 4 -> FetchAt(m, "L500")
         [] z = 1 /\ q = 0 -> FetchAt(m, "L521")
         [] z = 1 /\ q = 1 -> Yield(AddHl(m), "L542", nop)
         [] z = 2 /\ ~IndValid(m) -> Panic(m)
         [] z = 2 /\ IndValid(m) /\ q = 0 -> Yield(IndStep(m), "L571", write_byte(IndAddr(m), m.a))
         [] z = 2 /\ IndValid(m) /\ q = 1 -> Yield(IndStep(m), "L591", read_byte(IndAddr(m)))
         [] z = 3 /\ q = 0 -> Yield([m EXCEPT !.v = Inc16(read_16_bits(m, rp(p)))], "L602", nop)
         [] z = 3 /\ q = 1 -> Yield([m EXCEPT !.v = Dec16(read_16_bits(m, rp(p)))], "L613", nop)
         [] z = 4 /\ y = 6 -> Yield(m, "L621", read_byte(get_hl(m)))
         [] z = 4 /\ y # 6 -> Inc8(m, get_r(m, y), pins)
         [] z = 5 /\ y = 6 -> Yield(m, "L639", read_byte(get_hl(m)))
         [] z = 5 /\ y # 6 -> Dec8(m, get_r(m, y), pins)
         [] z = 6 -> FetchAt(m, "L657")
         [] z = 7 /\ y < 4 -> End(RotA(m, rot(y)), pins)
         [] z = 7 /\ y = 4 -> End(Daa(m), pins)
         [] z = 7 /\ y = 5 -> End([m EXCEPT !.a = Not8(m.a), !.f = set(set(m.f, NEGATIVE), HALFCARRY)], pins)
         [] z = 7 /\ y = 6 -> End([m EXCEPT !.f = set(unset(unset(m.f, NEGATIVE), HALFCARRY), CARRY)], pins)
         [] z = 7 /\ y = 7 ->
              End([m EXCEPT !.f = set_value(unset(unset(m.f, NEGATIVE), HALFCARRY), CARRY,
                                            ~contains(unset(unset(m.f, NEGATIVE), HALFCARRY), CARRY))], pins)

\* the flags ADD SP,n and LD HL,SP+d leave: FRegister::EMPTY, then C and H
SpFlags(carry, halfcarry) == set_value(set_value(EMPTY, CARRY, carry), HALFCARRY, halfcarry)

\* sp.overflowing_add(n as u16) kept in the locals v and c1, the half carry in c2
AddSp(m, n) ==
    [m EXCEPT !.v = U16(m.sp + n), !.c1 = m.sp + n > 65535, !.c2 = Lo(m.sp) + n >= 256]

\* push the high byte of PC: the first of the two writes of CALL, RST
PushHi(m, ph) ==
    Yield([m EXCEPT !.v = m.pc, !.sp = Dec16(m.sp)], ph, write_byte(Dec16(m.sp), Hi(m.pc)))
\* push the low byte of the PC kept in v
PushLo(m, ph) ==
    Yield([m EXCEPT !.sp = Dec16(m.sp)], ph, write_byte(Dec16(m.sp), Lo(m.v)))
\* pop one byte: keep the byte read, SP + 1, and read the next at line ph
PopLo(m, pins, ph) ==
    Yield([m EXCEPT !.lo = pins.data, !.sp = Inc16(m.sp)], ph, read_byte(Inc16(m.sp)))

\* opcode.x() == 3
DecodeX3(m, pins) ==
    LET y == OpY(m.op)
        z == OpZ(m.op)
        q == OpQ(m.op)
        p == OpP(m.op)
    IN CASE z = 0 /\ y <= 3 -> Yield(m, "L780", nop)
         [] z = 0 /\ y = 4 -> FetchAt(m, "L800")
         [] z = 0 /\ y = 5 -> FetchAt(m, "L809")
         [] z = 0 /\ y = 6 -> FetchAt(m, "L829")
         [] z = 0 /\ y = 7 -> FetchAt(m, "L838")
         [] z = 1 /\ q = 0 -> Yield(m, "L860", read_byte(m.sp))
         [] z = 1 /\ q = 1 /\ p = 0 -> Yield(m, "L874", read_byte(m.sp))
         [] z = 1 /\ q = 1 /\ p = 1 -> Yield(m, "L890", read_byte(m.sp))
         [] z = 1 /\ q = 1 /\ p = 2 -> End([m EXCEPT !.pc = get_hl(m)], pins)
         [] z = 1 /\ q = 1 /\ p = 3 -> Yield([m EXCEPT !.sp = get_hl(m)], "L913", nop)
         [] z = 2 /\ y <= 3 -> FetchAt(m, "L923")
         [] z = 2 /\ y = 4 -> Yield(m, "L942", write_byte(65280 + m.c, m.a))
         [] z = 2 /\ y = 6 -> Yield(m, "L948", read_byte(65280 + m.c))
         [] z = 2 /\ y = 5 -> FetchAt(m, "L955")
         [] z = 2 /\ y = 7 -> FetchAt(m, "L967")
         [] z = 3 /\ y = 0 -> FetchAt(m, "L983")
         [] z = 3 /\ y = 1 -> FetchAt(m, "L995")
         [] z = 3 /\ y = 6 -> End([m EXCEPT !.ime = FALSE], pins)
         [] z = 3 /\ y = 7 -> End([m EXCEPT !.ime = TRUE], pins)
         [] z = 3 /\ y \in 2..5 -> Panic(m)
         [] z = 4 /\ y <= 3 -> FetchAt(m, "L1045")
         [] z = 4 /\ y >= 4 -> Panic(m)
         [] z = 5 /\ q = 0 ->
              Yield([m EXCEPT !.v = read_16_bits(m, rp2(p)), !.sp = Dec16(m.sp)], "L1081",
                    write_byte(Dec16(m.sp), Hi(read_16_bits(m, rp2(p)))))
         [] z = 5 /\ q = 1 /\ p = 0 -> FetchAt(m, "L1090")
         [] z = 5 /\ q = 1 /\ p # 0 -> Panic(m)
         [] z = 6 -> FetchAt(m, "L1118")
         [] z = 7 -> PushHi(m, "L1134")

\* Decode & execute, lines 454-1146, with the opcode in m.op
Decode(m, pins) ==
    LET x == OpX(m.op)
        y == OpY(m.op)
        z == OpZ(m.op)
    IN CASE x = 0 -> DecodeX0(m, pins)
         [] x = 1 /\ z = 6 /\ y = 6 -> Panic(m)
         [] x = 1 /\ z = 6 /\ y # 6 -> Yield(m, "L763", read_byte(get_hl(m)))
         [] x = 1 /\ z # 6 -> Store8(m, get_r(m, z), y, "L764", pins)
         [] x = 2 /\ z = 6 -> Yield(m, "L771", read_byte(get_hl(m)))
         [] x = 2 /\ z # 6 -> End(do_math(m, get_r(m, z), alu(y)), pins)
         [] x = 3 -> DecodeX3(m, pins)

\* the CB-prefixed operation m.cb on the value v, then store_8_bits! (line 1028)
CbExec(m, v, pins) ==
    LET x == OpX(m.cb)
        n == OpY(m.cb)
        rs == do_rotate_shift(m, v, rot(n))
        \* BIT: z = v & (1 << n) != 0
        bitf == set(unset(set_value(m.f, ZERO, Bit(v, n) # 0), NEGATIVE), HALFCARRY)
        nv == CASE x = 0 -> rs[1]
                [] x = 1 -> v
                [] x = 2 -> v - Bit(v, n) * (2 ^ n)
                [] x = 3 -> v + (1 - Bit(v, n)) * (2 ^ n)
        f == CASE x = 0 -> rs[2] [] x = 1 -> bitf [] x \in {2, 3} -> m.f
    IN Store8([m EXCEPT !.f = f], nv, OpZ(m.cb), "L1028", pins)

\* the 16-bit immediate, low byte in the local, high byte on the pins
Imm16(m, pins) == Word(pins.data, m.lo)

\* resuming a yield of the x = 0 instructions
ResumeX0(m, pins) ==
    CASE m.ph = "L469" -> FetchAt([m EXCEPT !.lo = pins.data], "L471")
      [] m.ph = "L471" ->
           Yield([m EXCEPT !.hi = pins.data, !.v = m.sp], "L480", write_byte(Imm16(m, pins), Lo(m.sp)))
      [] m.ph = "L480" ->
           IF Word(m.hi, m.lo) + 1 > 65535 /\ m.oc
           THEN Panic(m)
           ELSE Yield(m, "L481", write_byte(U16(Word(m.hi, m.lo) + 1), Hi(m.v)))
      [] m.ph = "L487" -> RelJump(m, pins.data, "L493")
      [] m.ph = "L500" ->
           IF test_condition(m, cc(OpY(m.op) - 4)) THEN RelJump(m, pins.data, "L508") ELSE End(m, pins)
      [] m.ph = "L521" -> FetchAt([m EXCEPT !.lo = pins.data], "L523")
      [] m.ph = "L523" -> End(store_16_bits(m, Imm16(m, pins), rp(OpP(m.op))), pins)
      [] m.ph = "L542" ->
           End(set_hl([m EXCEPT !.f = set_value(set_value(unset(m.f, NEGATIVE), HALFCARRY, m.c1),
                                               CARRY, m.c2)], m.v), pins)
      [] m.ph = "L591" -> End([m EXCEPT !.a = pins.data], pins)
      [] m.ph \in {"L602", "L613"} -> End(store_16_bits(m, m.v, rp(OpP(m.op))), pins)
      [] m.ph = "L621" -> Inc8(m, pins.data, pins)
      [] m.ph = "L639" -> Dec8(m, pins.data, pins)
      [] m.ph = "L657" -> Store8(m, pins.data, OpY(m.op), "L658", pins)
      [] m.ph \in {"L481", "L493", "L508", "L571", "L632", "L650", "L658"} -> End(m, pins)

PhasesX0 == {"L469", "L471", "L480", "L481", "L487", "L493", "L500", "L508", "L521", "L523", "L542",
             "L571", "L591", "L602", "L613", "L621", "L632", "L639", "L650", "L657", "L658"}

\* resuming a yield of the x = 1, 2, 3 instructions
ResumeX3(m, pins) ==
    CASE m.ph = "L763" -> Store8(m, pins.data, OpY(m.op), "L764", pins)
      [] m.ph = "L771" -> End(do_math(m, pins.data, alu(OpY(m.op))), pins)
      [] m.ph = "L780" ->
           IF test_condition(m, cc(OpY(m.op)))
           THEN Yield([m EXCEPT !.taken = TRUE], "L783", read_byte(m.sp))
           ELSE End(m, pins)
      [] m.ph = "L783" -> PopLo(m, pins, "L786")
      [] m.ph = "L786" -> Yield([m EXCEPT !.hi = pins.data, !.sp = Inc16(m.sp)], "L791", nop)
      [] m.ph = "L791" -> End([m EXCEPT !.pc = Word(m.hi, m.lo)], pins)
      [] m.ph = "L800" -> Yield(m, "L804", write_byte(65280 + pins.data, m.a))
      [] m.ph = "L809" -> Yield(AddSp(m, pins.data), "L815", nop)
      [] m.ph = "L815" -> Yield([m EXCEPT !.sp = m.v, !.f = SpFlags(m.c1, m.c2)], "L824", nop)
      [] m.ph = "L829" -> Yield(m, "L832", read_byte(65280 + pins.data))
      [] m.ph = "L838" -> Yield(AddSp(m, pins.data), "L844", nop)
      [] m.ph = "L844" -> End(set_hl([m EXCEPT !.f = SpFlags(m.c1, m.c2)], m.v), pins)
      [] m.ph = "L860" -> PopLo(m, pins, "L863")
      [] m.ph = "L863" ->
           End(store_16_bits([m EXCEPT !.sp = Inc16(m.sp)], Imm16(m, pins), rp2(OpP(m.op))), pins)
      [] m.ph = "L874" -> PopLo(m, pins, "L877")
      [] m.ph = "L877" -> Yield([m EXCEPT !.hi = pins.data, !.sp = Inc16(m.sp)], "L882", nop)
      [] m.ph = "L882" -> End([m EXCEPT !.pc = Word(m.hi, m.lo)], pins)
      [] m.ph = "L890" -> PopLo(m, pins, "L893")
      [] m.ph = "L893" -> Yield([m EXCEPT !.hi = pins.data, !.sp = Inc16(m.sp)], "L898", nop)
      [] m.ph = "L898" -> End([m EXCEPT !.pc = Word(m.hi, m.lo), !.ime = TRUE], pins)
      [] m.ph = "L923" -> FetchAt([m EXCEPT !.lo = pins.data], "L925")
      [] m.ph = "L925" ->
           IF test_condition(m, cc(OpY(m.op)))
           THEN Yield([m EXCEPT !.pc = Imm16(m, pins), !.taken = TRUE], "L933", nop)
           ELSE End(m, pins)
      [] m.ph \in {"L832", "L948", "L973"} -> End([m EXCEPT !.a = pins.data], pins)
      [] m.ph = "L955" -> FetchAt([m EXCEPT !.lo = pins.data], "L957")
      [] m.ph = "L957" -> Yield(m, "L962", write_byte(Imm16(m, pins), m.a))
      [] m.ph = "L967" -> FetchAt([m EXCEPT !.lo = pins.data], "L969")
      [] m.ph = "L969" -> Yield(m, "L973", read_byte(Imm16(m, pins)))
      [] m.ph = "L983" -> FetchAt([m EXCEPT !.lo = pins.data], "L985")
      [] m.ph = "L985" -> End([m EXCEPT !.pc = Imm16(m, pins)], pins)
      [] m.ph = "L995" ->
           IF OpZ(pins.data) = 6
           THEN Yield([m EXCEPT !.cb = pins.data], "L999", read_byte(get_hl(m)))
           ELSE CbExec([m EXCEPT !.cb = pins.data], get_r(m, OpZ(pins.data)), pins)
      [] m.ph = "L999" -> CbExec(m, pins.data, pins)
      [] m.ph = "L1045" -> FetchAt([m EXCEPT !.lo = pins.data], "L1047")
      [] m.ph = "L1047" ->
           IF test_condition(m, cc(OpY(m.op)))
           THEN PushHi([m EXCEPT !.hi = pins.data, !.taken = TRUE], "L1058")
           ELSE End(m, pins)
      [] m.ph = "L1058" -> PushLo(m, "L1060")
      [] m.ph = "L1060" -> Yield([m EXCEPT !.pc = Word(m.hi, m.lo)], "L1064", nop)
      [] m.ph = "L1081" ->
           Yield([m EXCEPT !.sp = Inc16(m.sp)], "L1084", write_byte(Inc16(m.sp), Lo(m.v)))
      [] m.ph = "L1090" -> FetchAt([m EXCEPT !.lo = pins.data], "L1092")
      [] m.ph = "L1092" -> PushHi([m EXCEPT !.hi = pins.data], "L1102")
      [] m.ph = "L1102" -> PushLo(m, "L1104")
      [] m.ph = "L1104" -> Yield([m EXCEPT !.pc = Word(m.hi, m.lo)], "L1108", nop)
      [] m.ph = "L1118" -> End(do_math(m, pins.data, alu(OpY(m.op))), pins)
      [] m.ph = "L1134" -> PushLo(m, "L1136")
      [] m.ph = "L1136" -> Yield([m EXCEPT !.pc = OpY(m.op) * 8], "L1140", nop)
      [] m.ph \in {"L764", "L804", "L824", "L913", "L933", "L942", "L962", "L1028", "L1064",
                   "L1084", "L1108", "L1140"} -> End(m, pins)

\* one resume of the generator with the input pins: run to the next yield, or panic
Resume(m, pins) ==
    CASE m.ph = "start" -> LoopTop(m, pins)
      [] m.ph \in {"L431", "L432", "L439", "L441", "L448"} -> ResumeIsr(m, pins)
      [] m.ph = "L453" -> Decode([m EXCEPT !.op = pins.data], pins)
      [] m.ph \in PhasesX0 -> ResumeX0(m, pins)
      [] OTHER -> ResumeX3(m, pins)

----------------------------------------------------------------------------
(* CpuRunner::clock.                                                       *)

\* the machine record of the current state
Machine ==
    [a |-> cpu.a, f |-> cpu.f, b |-> cpu.b, c |-> cpu.c, d |-> cpu.d, e |-> cpu.e, h |-> cpu.h,
     l |-> cpu.l, sp |-> cpu.sp, pc |-> cpu.pc, ime |-> cpu.ime,
     ph |-> gen.ph, op |-> gen.op, cb |-> gen.cb, lo |-> gen.lo, hi |-> gen.hi, v |-> gen.v,
     c1 |-> gen.c1, c2 |-> gen.c2, vec |-> gen.vec, taken |-> gen.taken,
     n |-> obs.n, unit |-> obs.unit, last |-> obs.last, count |-> obs.count,
     p |-> obs.p, s |-> obs.s, ime0 |-> obs.ime0, pc0 |-> obs.pc0,
     out |-> cpu_out, panic |-> panicked, oc |-> overflow_checks]

CpuOf(m) ==
    [a |-> m.a, f |-> m.f, b |-> m.b, c |-> m.c, d |-> m.d, e |-> m.e, h |-> m.h, l |-> m.l,
     sp |-> m.sp, pc |-> m.pc, ime |-> m.ime]
GenOf(m) ==
    [ph |-> m.ph, op |-> m.op, cb |-> m.cb, lo |-> m.lo, hi |-> m.hi, v |-> m.v, c1 |-> m.c1,
     c2 |-> m.c2, vec |-> m.vec, taken |-> m.taken]
ObsOf(m) ==
    [n |-> m.n, unit |-> m.unit, last |-> m.last, count |-> m.count, p |-> m.p, s |-> m.s,
     ime0 |-> m.ime0, pc0 |-> m.pc0]

\* CpuRunner::clock(pins): resume the generator; a panic leaves the runner as it was
CpuRunnerClock(pins) ==
    \E m2 \in {Resume(Machine, pins)} :
       IF m2.panic
       THEN /\ panicked' = TRUE
            /\ UNCHANGED <<cpu, gen, cpu_out, obs, overflow_checks>>
       ELSE /\ cpu' = CpuOf(m2)
            /\ gen' = GenOf(m2)
            /\ obs' = ObsOf(m2)
            /\ cpu_out' = m2.out
            /\ UNCHANGED <<panicked, overflow_checks>>

\* Cpu::default(), with the registers a test sets before Cpu::runner()
DefaultCpu ==
    [a |-> 0, f |-> 0, b |-> 0, c |-> 0, d |-> 0, e |-> 0, h |-> 0, l |-> 0, sp |-> 0, pc |-> 0,
     ime |-> FALSE]

NoLast == [unit |-> "none", op |-> 0, cb |-> 0, n |-> 0, taken |-> FALSE, vec |-> 0, ime0 |-> FALSE]
InitGen == [ph |-> "start", op |-> 0, cb |-> 0, lo |-> 0, hi |-> 0, v |-> 0, c1 |-> FALSE,
            c2 |-> FALSE, vec |-> 0, taken |-> FALSE]
InitObs(c) ==
    [n |-> 0, unit |-> "none", last |-> NoLast, count |-> 0, p |-> 0, s |-> 0, ime0 |-> c.ime,
     pc0 |-> c.pc]

\* the pixels of a frame: 144 rows of 160
FramePixels == 23040
\* A frame buffer.  The generator writes the pixels in raster order, so a buffer is told
\* by the frame that wrote its first `cursor` pixels (top) and the frame whose pixels are
\* left in the others (rest).  Frame::new: every pixel 0, the blank frame 0.
NewFrame == [top |-> 0, cursor |-> FramePixels, rest |-> 0]

\* PpuState::new(), with the PPU generator not yet started
NewPpu ==
    [lcdc |-> 0, stat |-> 0, scy |-> 0, scx |-> 0, ly |-> 0, lyc |-> 0, wy |-> 0, wx |-> 0,
     bgp |-> 0, obp0 |-> 0, obp1 |-> 0, vblank_irq |-> FALSE, stat_irq |-> FALSE, mem |-> <<>>,
     pos |-> "start", scanline |-> 0, entry |-> 0, sprite_buffer |-> <<>>,
     sprite_buffer_len |-> 0, cycles |-> 0,
     x |-> 0, dot |-> 0, wy_passed |-> FALSE, window_lines |-> 0, inside_window |-> FALSE,
     fifo_data |-> [k \in 0..15 |-> 0], fifo_i |-> 0, fifo_len |-> 0, fetch |-> 0,
     x_counter |-> 0, window_line |-> 0, tile_data_index |-> 0, tile_data_low |-> 0,
     tile_data_high |-> 0, queue |-> <<>>, push_len |-> -1, pop_len |-> -1,
     popped |-> -1, due |-> -1,
     put |-> [x |-> -1, y |-> 0, color |-> 0], panic |-> FALSE, t |-> 0, n |-> 0,
     frame |-> NewFrame, back_frame |-> NewFrame, frame_no |-> 0]

\* Memory::new(): all RAM is 0
NewMemory == [ram |-> <<>>, n |-> 0]

\* Rom::new(data): the ROM image
NewRom(image) == [data |-> image, n |-> 0]

\* Timer::default()
NewTimer == [div |-> 0, tima |-> 0, tma |-> 0, tac |-> 0, n |-> 0]

\* Joypad::default(): no button held
NewJoypad ==
    [start |-> FALSE, select |-> FALSE, b |-> FALSE, a |-> FALSE, down |-> FALSE, up |-> FALSE,
     left |-> FALSE, right |-> FALSE, p1 |-> 0, n |-> 0]

\* Chips and top-level state at rest (the CPU-only specifications leave them alone)
RestBus ==
    /\ cpu_input = InputPins(0, 0)
    /\ interrupt_enable = 0
    /\ interrupt_request = 0
    /\ timer = NewTimer
    /\ joypad = NewJoypad
    /\ ppu = NewPpu
    /\ memory = NewMemory
    /\ rom = NewRom(<<>>)
    /\ raised = 0
    /\ pending = 0

----------------------------------------------------------------------------
(* SpecCpu: the CPU runner alone, driven as the instruction tests drive    *)
(* it: any opcode at a fetch, any operand byte, any interrupt pins.        *)

MaxInstr == 2

\* the register files the runs start from
StartCpus ==
    { [DefaultCpu EXCEPT !.pc = 256, !.sp = 65534, !.a = 15, !.c = 1, !.h = 192, !.l = 255],
      [DefaultCpu EXCEPT !.pc = 32765, !.sp = 1, !.a = 240, !.f = 240, !.b = 18, !.h = 255, !.l = 255] }

\* the opcodes offered at a fetch: every arm of the decoder
Opcodes ==
    {0, 8, 16, 24, 32, 40, 1, 9, 2, 34, 10, 3, 11, 4, 52, 53, 6, 54, 7, 39, 63,
     118, 65, 70, 112, 128, 134,
     192, 200, 224, 232, 240, 248, 193, 241, 201, 217, 233, 249, 194, 202, 234, 250,
     195, 203, 243, 251, 211, 204, 228, 197, 205, 221, 198, 199}
\* the bytes offered as operands and memory data
Operands == {70, 255}
\* the interrupt pins offered, as IE & IF masks
IrqMasks == {0, 4, 26}

InitCpu ==
    /\ cpu \in StartCpus
    /\ gen = InitGen
    /\ cpu_out = nop
    /\ panicked = FALSE
    /\ overflow_checks \in BOOLEAN
    /\ obs = InitObs(cpu)
    /\ RestBus
    /\ clocks = 0

\* one CpuRunner::clock call of the harness
CpuClock ==
    /\ ~panicked
    /\ obs.count < MaxInstr
    /\ \E data \in (IF gen.ph = "L453" THEN Opcodes ELSE Operands), irq \in IrqMasks :
          CpuRunnerClock(InputPins(data, irq))
    /\ clocks' = clocks + 1
    /\ UNCHANGED busVars

NextCpu == CpuClock

SpecCpu == InitCpu /\ [][NextCpu]_vars

----------------------------------------------------------------------------
(* Properties of the CPU runner.                                           *)

\* the first yield after an instruction boundary
AtBoundary == obs.n = 1 /\ ~panicked

\* C4: dispatching an interrupt with vector V when PC = p and SP = s writes the high byte
\* of p to s-1, then the low byte of p to s-2, leaves SP = s-2 (mod 2^16), sets PC = V and
\* clears IME, and the next opcode fetch reads address V.
C4_DispatchPushesPcAndJumps ==
    /\ gen.ph = "L439" =>
          /\ cpu_out = WritePins(U16(obs.s + 65535), Hi(obs.p))
          /\ cpu.sp = U16(obs.s + 65535)
    /\ gen.ph = "L441" =>
          /\ cpu_out = WritePins(U16(obs.s + 65534), Lo(obs.p))
          /\ cpu.sp = U16(obs.s + 65534)
    /\ gen.ph = "L448" =>
          /\ cpu.pc = gen.vec
          /\ cpu.sp = U16(obs.s + 65534)
          /\ ~cpu.ime
    /\ (gen.ph = "L453" /\ obs.n = 1 /\ obs.last.unit = "isr") =>
          /\ cpu_out = ReadPins(obs.last.vec)
          /\ obs.last.vec \in {64, 72, 80, 88, 96}
          /\ cpu.pc = U16(obs.last.vec + 1)
          /\ cpu.sp = U16(obs.s + 65534)
          /\ ~cpu.ime

\* a dispatch from SP = 1 has been completed: the two writes went to 0x0000 and 0xFFFF
C4_Witness ==
    /\ gen.ph = "L453" /\ obs.n = 1 /\ obs.last.unit = "isr"
    /\ obs.s = 1 /\ cpu.sp = 65535 /\ ~panicked

\* C11: in every reachable CPU state the low four bits of register F are 0: after every
\* instruction (POP AF, the ALU, rotate and flag instructions included) and after every
\* conversion of a byte into the flag register.
C11_FLowNibbleZero == cpu.f % 16 = 0

\* POP AF has popped the bytes 0x46, 0x46: A took the high byte, F only the high nibble
C11_Witness ==
    /\ AtBoundary /\ obs.last.unit = "instr" /\ obs.last.op = 241
    /\ cpu.a = 70 /\ cpu.f = 64

\* C7: when EI executes with IME clear, no interrupt is dispatched at the boundary right
\* after it (only after the following instruction); DI clears IME at once, and no interrupt
\* is dispatched at the boundary right after DI.
C7_EiDelayedDiImmediate ==
    /\ (AtBoundary /\ obs.last.unit = "instr" /\ obs.last.op = 251 /\ ~obs.last.ime0) =>
          gen.ph # "L431"
    /\ (AtBoundary /\ obs.last.unit = "instr" /\ obs.last.op = 243) =>
          (~cpu.ime /\ gen.ph # "L431")

\* the cycle table: the M-cycles of the instruction op (0: the table has no entry)
CycleTable(op, taken) ==
    LET x == OpX(op)
        y == OpY(op)
        z == OpZ(op)
        q == OpQ(op)
        p == OpP(op)
    IN CASE op = 0 -> 1
         [] op = 8 -> 5
         [] op = 24 -> 3
         [] x = 0 /\ z = 0 /\ y >= 4 -> IF taken THEN 3 ELSE 2
         [] x = 0 /\ z = 1 /\ q = 0 -> 3
         [] x = 0 /\ z = 1 /\ q = 1 -> 2
         [] x = 0 /\ z = 3 -> 2
         [] x = 0 /\ z = 6 -> IF y = 6 THEN 3 ELSE 2
         [] x = 1 /\ op # 118 -> IF y = 6 \/ z = 6 THEN 2 ELSE 1
         [] x = 2 -> IF z = 6 THEN 2 ELSE 1
         [] x = 3 /\ z = 0 /\ y <= 3 -> IF taken THEN 5 ELSE 2
         [] op \in {224, 240} -> 3
         [] x = 3 /\ z = 1 /\ q = 0 -> 3
         [] op \in {201, 217} -> 4
         [] op = 233 -> 1
         [] x = 3 /\ z = 2 /\ y <= 3 -> IF taken THEN 4 ELSE 3
         [] op = 234 -> 4
         [] op = 195 -> 4
         [] x = 3 /\ z = 4 /\ y <= 3 -> IF taken THEN 6 ELSE 3
         [] x = 3 /\ z = 5 /\ q = 0 -> 4
         [] op = 205 -> 6
         [] x = 3 /\ z = 7 -> 4
         [] OTHER -> 0

\* C8: every instruction of the cycle table takes the table's number of clock calls, from
\* its own opcode fetch up to, but not including, the next opcode fetch.
C8_CyclesMatchTable ==
    (obs.last.unit = "instr" /\ CycleTable(obs.last.op, obs.last.taken) # 0) =>
        obs.last.n = CycleTable(obs.last.op, obs.last.taken)

\* C9: an interrupt dispatch takes exactly 5 clock calls before the call that fetches the
\* first opcode at the vector; that fetch is the sixth call.
C9_DispatchFiveCyclesThenFetch ==
    /\ obs.last.unit = "isr" => obs.last.n = 5
    /\ obs.unit = "isr" => (obs.n <= 5 /\ gen.ph \in {"L431", "L432", "L439", "L441", "L448"})
    /\ gen.ph = "L448" => obs.n = 5

\* an interrupt has been dispatched and the opcode at its vector is being fetched
C9_Witness == obs.last.unit = "isr" /\ gen.ph = "L453" /\ obs.n = 1 /\ cpu.pc = obs.last.vec + 1

\* C9 as stated: 5 clock calls from the boundary up to and including the fetch at the vector
C9_FiveCyclesIncludingFetch == obs.last.unit = "isr" => obs.last.n + 1 = 5

\* the opcodes no arm of the decoder executes: 0xD3 0xDB 0xE3 0xEB (x = 3, z = 3),
\* 0xE4 0xEC 0xF4 0xFC (x = 3, z = 4), 0xDD 0xED 0xFD (x = 3, z = 5)
UndefinedOpcodes == {211, 219, 227, 235, 228, 236, 244, 252, 221, 237, 253}

\* C28: when the CPU fetches one of the undefined opcodes it enters a trapped state:
\* the clock call that hands it the opcode returns, whatever the interrupt pins.
C28_UndefinedOpcodeTraps ==
    gen.ph = "L453" =>
        \A op \in UndefinedOpcodes, irq \in IrqMasks : ~Resume(Machine, InputPins(op, irq)).panic

----------------------------------------------------------------------------
(* SpecNop: the CPU runner fed NOP opcodes and no interrupts, as the nop   *)
(* test feeds it, from several start addresses.                            *)

MaxNopClocks == 40

NopStartPcs == {0, 256, 65530}

InitNop ==
    /\ cpu \in {[DefaultCpu EXCEPT !.pc = pc] : pc \in NopStartPcs}
    /\ gen = InitGen
    /\ cpu_out = nop
    /\ panicked = FALSE
    /\ overflow_checks \in BOOLEAN
    /\ obs = InitObs(cpu)
    /\ RestBus
    /\ clocks = 0

\* one CpuRunner::clock call with a NOP on the data pins
NopClock ==
    /\ ~panicked
    /\ clocks < MaxNopClocks
    /\ CpuRunnerClock(InputPins(0, 0))
    /\ clocks' = clocks + 1
    /\ UNCHANGED busVars

NextNop == NopClock

SpecNop == InitNop /\ [][NextNop]_vars

\* C10: with NOP opcodes on the data bus from PC = p, the k-th clock call returns
\* Read{addr = p + k - 1} (a 16-bit address): each call is the fetch of the next opcode.
C10_NopStreamFetchesEveryCycle ==
    /\ ~panicked
    /\ clocks >= 1 => (cpu_out = ReadPins(U16(obs.pc0 + clocks - 1)) /\ gen.ph = "L453")

\* the address has wrapped: 12 calls from 0xFFFA return Read{addr = 0x0005}
C10_Witness == clocks = 12 /\ obs.pc0 = 65530 /\ cpu_out = ReadPins(5) /\ obs.count = 11

----------------------------------------------------------------------------
(* Sparse byte arrays: the bytes written so far; every other byte is 0.     *)

MemRead(f, a) == IF a \in DOMAIN f THEN f[a] ELSE 0
MemWrite(f, a, v) == [x \in DOMAIN f \cup {a} |-> IF x = a THEN v ELSE f[x]]

----------------------------------------------------------------------------
(* The PPU: PpuState, its register I/O, and the generator gen(), resumed   *)
(* once per T-state.  The record p joins the registers and irq lines, the  *)
(* video memory (mem), the generator's position (pos, the source line of   *)
(* the yield it is suspended at) and locals, and the counters t (T-states  *)
(* clocked) and n (Chip::clock calls).  The background FIFO is the         *)
(* ShiftRegister (fifo_data, fifo_i, fifo_len) with the fetcher's state;    *)
(* beside it the record keeps what the FIFO was given and gave: queue, the  *)
(* pixels pushed and not yet popped or cleared, in the order of the pushes; *)
(* push_len and pop_len, the length of the FIFO when the latest row was     *)
(* pushed and when the latest pixel was popped; popped, that pixel, and     *)
(* due, the head of queue at that pop (-1 each before the first); put, the  *)
(* latest put_pixel (position and colour id; COLORS maps the  *)
(* four ids to four different RGBA values).  The frames keep, instead of    *)
(* the pixels, the number of the frame that drew them.                      *)

\* PpuState::update_stat_interrupt: stat_irq is the level of the enabled STAT sources
update_stat_interrupt(p) ==
    LET mode == p.stat % 4
        mode_int == \/ mode = 0 /\ Bit(p.stat, 3) = 1
                    \/ mode = 1 /\ Bit(p.stat, 4) = 1
                    \/ mode = 2 /\ Bit(p.stat, 5) = 1
        lyc_int == Bit(p.stat, 6) = 1 /\ Bit(p.stat, 2) = 1
    IN [p EXCEPT !.stat_irq = mode_int \/ lyc_int]

\* PpuState::set_ly
set_ly(p, ly) ==
    update_stat_interrupt(
        [p EXCEPT !.ly = ly,
                  !.stat = IF ly = p.lyc THEN Or8(p.stat, 4) ELSE p.stat - 4 * Bit(p.stat, 2)])

\* PpuState::set_mode, with STAT::set_mode
set_mode(p, mode) == update_stat_interrupt([p EXCEPT !.stat = (p.stat - (p.stat % 4)) + mode])

\* the addresses the PPU keeps in tile_data, bg_map_1, bg_map_2 and oam
PpuMemAddr(addr) == addr \in 32768..40959 \/ addr \in 65024..65183

\* the register a write to an I/O address changes
PpuWriteReg(p, addr, v) ==
    CASE addr = 65344 -> [p EXCEPT !.lcdc = v]
      [] addr = 65345 -> update_stat_interrupt([p EXCEPT !.stat = v % 128])
      [] addr = 65346 -> [p EXCEPT !.scy = v]
      [] addr = 65347 -> [p EXCEPT !.scx = v]
      [] addr = 65348 -> [p EXCEPT !.ly = v]
      [] addr = 65349 -> [p EXCEPT !.lyc = v]
      [] addr = 65351 -> [p EXCEPT !.bgp = v]
      [] addr = 65352 -> [p EXCEPT !.obp0 = v]
      [] addr = 65353 -> [p EXCEPT !.obp1 = v]
      [] addr = 65354 -> [p EXCEPT !.wy = v]
      [] addr = 65355 -> [p EXCEPT !.wx = v]
      [] OTHER -> p

\* the byte a read of an I/O address puts on the data line
PpuReadReg(p, addr) ==
    CASE addr = 65344 -> p.lcdc
      [] addr = 65345 -> p.stat
      [] addr = 65346 -> p.scy
      [] addr = 65347 -> p.scx
      [] addr = 65348 -> p.ly
      [] addr = 65349 -> p.lyc
      [] addr = 65350 -> 0
      [] addr = 65351 -> p.bgp
      [] addr = 65352 -> p.obp0
      [] addr = 65353 -> p.obp1
      [] addr = 65354 -> p.wy
      [] addr = 65355 -> p.wx

\* the IF bits 0 and 1 as perform_io leaves them: copies of vblank_irq and stat_irq
PpuIrqMirror(p, ir) ==
    LET hi == ir - (ir % 4)
    IN hi + (IF p.vblank_irq THEN 1 ELSE 0) + (IF p.stat_irq THEN 2 ELSE 0)

\* PpuState::perform_io: [ppu, data, ir]
perform_io(p, out, data, ir) ==
    LET p1 == IF out.is_read THEN p
              ELSE IF PpuMemAddr(out.addr) THEN [p EXCEPT !.mem = MemWrite(p.mem, out.addr, out.data)]
              ELSE PpuWriteReg(p, out.addr, out.data)
        d1 == IF ~out.is_read THEN data
              ELSE IF PpuMemAddr(out.addr) THEN MemRead(p.mem, out.addr)
              ELSE IF out.addr \in 65344..65355 THEN PpuReadReg(p, out.addr)
              ELSE data
    IN [ppu |-> p1, data |-> d1, ir |-> PpuIrqMirror(p1, ir)]

\* color::calculate_monochrome_color_id (pix < 4 for every pixel the fetcher makes)
calculate_monochrome_color_id(palette, pix) == (palette \div (4 ^ pix)) % 4

\* PpuState::put_pixel, written into back_frame in place
put_pixel_Front(p, bg_pix, x, y) ==
    [p EXCEPT !.frame = [top |-> p.frame_no, cursor |-> y * 160 + x + 1,
                         rest |-> IF y * 160 + x + 1 = FramePixels THEN p.frame_no
                                  ELSE IF @.cursor = FramePixels THEN @.top ELSE @.rest],
              !.put = [x |-> x, y |-> y, color |-> calculate_monochrome_color_id(p.bgp, bg_pix)]]
\* PpuState::put_pixel: the pixel (x, y) of the frame being drawn goes to back_frame
put_pixel(p, bg_pix, x, y) ==
    [p EXCEPT !.back_frame = [top |-> p.frame_no, cursor |-> y * 160 + x + 1,
                              rest |-> IF y * 160 + x + 1 = FramePixels THEN p.frame_no
                                       ELSE IF @.cursor = FramePixels THEN @.top ELSE @.rest],
              !.put = [x |-> x, y |-> y, color |-> calculate_monochrome_color_id(p.bgp, bg_pix)]]
\* PpuState::swap_frames
swap_frames(p) == [p EXCEPT !.frame = p.back_frame, !.back_frame = p.frame]
\* Ppu::get_frame: a copy of frame
get_frame(p) == p.frame

\* byte i of the OAM
OamByte(p, i) == MemRead(p.mem, 65024 + i)
\* PpuState::sprite_height
sprite_height(p) == IF Bit(p.lcdc, 2) = 1 THEN 16 ELSE 8

\* PpuState::oam: the nth OAM entry (index <= 40 for every entry the search asks for)
oam(p, index) ==
    [ypos |-> OamByte(p, index * 4), xpos |-> OamByte(p, index * 4 + 1),
     tile |-> OamByte(p, index * 4 + 2), flags |-> OamByte(p, index * 4 + 3)]

\* the OAM search test that keeps a sprite although the buffer is full
OamSearch_NoRoomTest(p) ==
    LET e == oam(p, p.entry)
        hit == /\ e.xpos > 0
               /\ p.scanline + 16 >= e.ypos
               /\ p.scanline + 16 < e.ypos + sprite_height(p)
    IN [p EXCEPT !.sprite_buffer = IF hit THEN Append(@, e) ELSE @,
                 !.sprite_buffer_len = IF hit THEN @ + 1 ELSE @, !.pos = "L298"]

\* the OAM search test of entry p.entry on the scanline: the sprite is kept while the
\* buffer has room.  sprite_buffer holds the first sprite_buffer_len entries kept.  The
\* u8 sum ypos + sprite_height is evaluated only when scanline + 16 >= ypos, so it is at
\* most 159 + 16.
OamSearch(p) ==
    LET e == oam(p, p.entry)
        hit == /\ p.sprite_buffer_len < 10
               /\ e.xpos > 0
               /\ p.scanline + 16 >= e.ypos
               /\ p.scanline + 16 < e.ypos + sprite_height(p)
    IN [p EXCEPT !.sprite_buffer = IF hit THEN Append(@, e) ELSE @,
                 !.sprite_buffer_len = IF hit THEN @ + 1 ELSE @, !.pos = "L298"]

\* the top of the scanline loop, up to the first yield of the OAM search
LineStart(p, scanline) ==
    LET p1 == set_ly(p, scanline)
        p2 == [p1 EXCEPT !.wy_passed = @ \/ p1.ly = p1.wy]
        p3 == set_mode(p2, 2)
    IN OamSearch([p3 EXCEPT !.scanline = scanline, !.entry = 0, !.sprite_buffer = <<>>,
                            !.sprite_buffer_len = 0])

\* the top of the frame loop: a new FIFO, wy_passed and window_lines reset
FrameStart(p) ==
    LineStart([p EXCEPT !.fifo_data = [k \in 0..15 |-> 0], !.fifo_i = 0, !.fifo_len = 0,
                        !.fetch = 0, !.x_counter = 0, !.queue = <<>>,
                        !.wy_passed = FALSE, !.window_lines = 0,
                        !.vblank_irq = FALSE, !.frame_no = @ + 1], 0)

\* PpuState::get_bg_tile_number and get_window_tile_number: the byte at `offset` of the
\* tile map that the LCDC bit selects (bg_map_2 at 0x9C00, bg_map_1 at 0x9800)
get_tile_map_byte(p, bit, offset) ==
    MemRead(p.mem, (IF Bit(p.lcdc, bit) = 1 THEN 39936 ELSE 38912) + offset)

\* TileCounter::get_tile_number: the background row is a wrapping sum, its column wraps
\* within the 32 tiles of the row; the window counts from the left edge of its row
get_tile_number(p) ==
    IF ~p.inside_window
    THEN get_tile_map_byte(p, 3, ((U8(p.ly + p.scy) \div 8) * 32
                                  + ((p.scx \div 8 + p.x_counter) % 32)) % 1024)
    ELSE get_tile_map_byte(p, 6, (p.window_line \div 8) * 32 + p.x_counter)

\* PpuState::tile_data_address: 16 bytes a tile, from 0 when LCDC.BG_TILE_DATA_AREA is set
\* and else signed from 0x1000.  The signed offset is cast to usize before it is added:
\* for tile numbers from 128 on the usize sum overflows, which wraps to the address
\* wanted without overflow checks and panics (-1) with them.
tile_data_address(p, tile_no, oc) ==
    IF Bit(p.lcdc, 4) = 1 THEN tile_no * 16
    ELSE IF tile_no >= 128 /\ oc THEN -1
    ELSE 4096 + AsI8(tile_no) * 16

\* the byte at `index` of tile_data (0x8000..0x97FF)
tile_data(p, index) == MemRead(p.mem, 32768 + index)

\* a push that writes the row at the front of the register, data[i]
PushRow_AtFront(p, low, high) ==
    IF p.fifo_len + 8 > 16 THEN [p EXCEPT !.panic = TRUE] ELSE
    [p EXCEPT !.fifo_data = [k \in 0..15 |->
                                LET n == (k - p.fifo_i) % 16
                                IN IF n < 8 THEN 2 * Bit(high, 7 - n) + Bit(low, 7 - n)
                                   ELSE @[k]],
              !.fifo_len = @ + 8,
              !.push_len = p.fifo_len,
              !.queue = @ \o [n \in 1..8 |-> 2 * Bit(high, 8 - n) + Bit(low, 8 - n)]]

\* ShiftRegister::push of the 8 pixels of a tile row, bit 7 first: each goes to
\* data[(i + len) % 16]; a push into a full register fails and its unwrap() panics
PushRow(p, low, high) ==
    IF p.fifo_len + 8 > 16 THEN [p EXCEPT !.panic = TRUE] ELSE
    [p EXCEPT !.fifo_data = [k \in 0..15 |->
                                LET n == (k - p.fifo_i - p.fifo_len) % 16
                                IN IF n < 8 THEN 2 * Bit(high, 7 - n) + Bit(low, 7 - n)
                                   ELSE @[k]],
              !.fifo_len = @ + 8,
              !.push_len = p.fifo_len,
              !.queue = @ \o [n \in 1..8 |-> 2 * Bit(high, 8 - n) + Bit(low, 8 - n)]]

\* BgPixelFifo::clock: FetchTile (0), FetchTileDataLow (1), FetchTileDataHigh (2),
\* ReadyToPush (3), which pushes 8 pixels once the FIFO holds at most 8.  The background
\* line offset (ly + scy) % 8 is a u8 addition.
FifoClock(p, oc) ==
    CASE p.fetch = 0 ->
           LET tile_addr == tile_data_address(p, get_tile_number(p), oc)
               tile_line_offset == IF ~p.inside_window THEN 2 * ((p.ly + p.scy) % 8)
                                   ELSE 2 * (p.window_line % 8)
           IN IF tile_addr = -1 \/ (~p.inside_window /\ p.ly + p.scy > 255 /\ oc)
              THEN [p EXCEPT !.panic = TRUE]
              ELSE [p EXCEPT !.fetch = 1, !.tile_data_index = tile_addr + tile_line_offset]
      [] p.fetch = 1 -> [p EXCEPT !.fetch = 2, !.tile_data_low = tile_data(p, p.tile_data_index)]
      [] p.fetch = 2 ->
           [p EXCEPT !.fetch = 3, !.tile_data_high = tile_data(p, p.tile_data_index + 1)]
      [] p.fetch = 3 ->
           IF p.fifo_len <= 8
           THEN \* a failed push panics before increment() and the state change
                LET p1 == PushRow(p, p.tile_data_low, p.tile_data_high)
                IN IF p1.panic THEN p1 ELSE [p1 EXCEPT !.x_counter = @ + 1, !.fetch = 0]
           ELSE p

\* one iteration of the drawing loop, up to its yield: BgPixelFifo::pop_pixel gives
\* data[i] while the FIFO holds more than 8; on window entry the FIFO is cleared (its
\* length alone) and the tile counter becomes that of the window
DrawIter(p, oc) ==
    LET p1 == IF p.cycles % 2 = 0 THEN FifoClock(p, oc) ELSE p
        popped == p1.fifo_len > 8
        pixel == p1.fifo_data[p1.fifo_i]
        enter == /\ popped
                 /\ Bit(p1.lcdc, 5) = 1
                 /\ p1.wy_passed
                 /\ p1.x >= p1.wx - 7
                 /\ ~p1.inside_window
        p2 == IF popped /\ p1.x >= 0 THEN put_pixel(p1, pixel, p1.x, p1.scanline) ELSE p1
    IN [p2 EXCEPT !.fifo_len = IF enter THEN 0 ELSE IF popped THEN @ - 1 ELSE @,
                  !.fifo_i = IF popped THEN (@ + 1) % 16 ELSE @,
                  !.queue = IF enter THEN <<>> ELSE IF popped THEN Tail(@) ELSE @,
                  !.pop_len = IF popped THEN p1.fifo_len ELSE @,
                  !.popped = IF popped THEN pixel ELSE @,
                  !.due = IF popped THEN Head(p1.queue) ELSE @,
                  !.fetch = IF enter THEN 0 ELSE @,
                  !.x_counter = IF enter THEN 0 ELSE @,
                  !.window_line = IF enter THEN p1.window_lines ELSE @,
                  !.inside_window = @ \/ enter,
                  !.x = IF popped THEN @ + 1 ELSE @,
                  !.pos = "L335"]

\* the VBlank scanline: set_ly, then 456 yields
VLine(p, scanline) == [set_ly(p, scanline) EXCEPT !.scanline = scanline, !.dot = 0, !.pos = "L358"]

\* after the last dot of a scanline: the next scanline, or VBlank
NextLine(p) ==
    IF p.scanline + 1 < 144
    THEN LineStart(p, p.scanline + 1)
    ELSE VLine([swap_frames(set_mode(p, 1)) EXCEPT !.vblank_irq = TRUE], 144)

\* the end of the drawing loop: HBlank
EndDraw(p) ==
    LET p1 == [p EXCEPT !.window_lines = IF p.wy_passed THEN @ + 1 ELSE @]
        p2 == [set_mode(p1, 0) EXCEPT !.fifo_len = 0, !.fetch = 0, !.queue = <<>>]
    IN IF p2.cycles < 456 THEN [p2 EXCEPT !.pos = "L346"] ELSE NextLine(p2)

\* one resume of the PPU generator: run to the next yield
PpuResume(p, oc) ==
    CASE p.pos = "start" -> FrameStart(p)
      [] p.pos = "L298" -> [p EXCEPT !.pos = "L299"]
      [] p.pos = "L299" ->
           IF p.entry + 1 < 40
           THEN OamSearch([p EXCEPT !.entry = @ + 1])
           ELSE DrawIter([set_mode(p, 3) EXCEPT !.cycles = 80, !.x_counter = 0,
                                               !.x = 0 - (p.scx % 8),
                                               !.inside_window = FALSE], oc)
      [] p.pos = "L335" ->
           IF p.x < 160
           THEN DrawIter([p EXCEPT !.cycles = @ + 1], oc)
           ELSE EndDraw([p EXCEPT !.cycles = @ + 1])
      [] p.pos = "L346" ->
           IF p.cycles + 1 < 456 THEN [p EXCEPT !.cycles = @ + 1] ELSE NextLine([p EXCEPT !.cycles = @ + 1])
      [] p.pos = "L358" ->
           IF p.dot + 1 < 456 THEN [p EXCEPT !.dot = @ + 1]
           ELSE IF p.scanline + 1 < 154 THEN VLine(p, p.scanline + 1)
           ELSE FrameStart(p)

\* clock_t_state: resume the generator once (a generator that has panicked stays dead)
clock_t_state(p, oc) ==
    IF p.panic THEN p ELSE [PpuResume(p, oc) EXCEPT !.t = p.t + 1]

\* for _ in 0..4 { self.clock_t_state() }
FourTStates(p, oc) ==
    CHOOSE r \in
        { clock_t_state(p3, oc) :
            p3 \in { clock_t_state(p2, oc) :
                     p2 \in { clock_t_state(p1, oc) :
                              p1 \in { clock_t_state(p0, oc) : p0 \in {p} } } } } : TRUE

\* impl Chip for Ppu: perform_io, then four T-states
PpuClock(p, out, data, ir, oc) ==
    CHOOSE r \in
        { [ppu |-> [FourTStates(io.ppu, oc) EXCEPT !.n = @ + 1], data |-> io.data, ir |-> io.ir] :
            io \in { perform_io(p, out, data, ir) } } : TRUE

----------------------------------------------------------------------------
(* Memory, the cartridge ROM, the timer and the joypad.  Each chip's clock *)
(* returns [chip, data, ir]: the chip, and the data line and the           *)
(* interrupt requests as it leaves them (irq: the chip raised a request).  *)

\* Memory::address_is_in_range: work RAM and high RAM
address_is_in_range(addr) == addr \in 49152..57343 \/ addr \in 65408..65534

\* a Memory that is clocked only when the address selects it
MemoryClock_OnlyWhenSelected(mem, out, data, ir) ==
    [chip |-> [ram |-> IF address_is_in_range(out.addr) /\ ~out.is_read
                       THEN MemWrite(mem.ram, out.addr, out.data) ELSE mem.ram,
               n |-> IF address_is_in_range(out.addr) THEN mem.n + 1 ELSE mem.n],
     data |-> IF address_is_in_range(out.addr) /\ out.is_read THEN MemRead(mem.ram, out.addr) ELSE data,
     ir |-> ir]

\* a Memory that also answers in 0xE000-0xFDFF, as the work RAM address 0x2000 below
MemoryClock_Echo(mem, out, data, ir) ==
    LET a == IF out.addr \in 57344..65023 THEN out.addr - 8192 ELSE out.addr
    IN [chip |-> [ram |-> IF address_is_in_range(a) /\ ~out.is_read
                          THEN MemWrite(mem.ram, a, out.data) ELSE mem.ram,
                  n |-> mem.n + 1],
        data |-> IF address_is_in_range(a) /\ out.is_read THEN MemRead(mem.ram, a) ELSE data,
        ir |-> ir]

\* impl Chip for Memory
MemoryClock(mem, out, data, ir) ==
    [chip |-> [ram |-> IF address_is_in_range(out.addr) /\ ~out.is_read
                       THEN MemWrite(mem.ram, out.addr, out.data) ELSE mem.ram,
               n |-> mem.n + 1],
     data |-> IF address_is_in_range(out.addr) /\ out.is_read THEN MemRead(mem.ram, out.addr) ELSE data,
     ir |-> ir]

\* a Rom that answers every read, whatever the address
RomClock_AnyAddr(cart, out, data, ir) ==
    [chip |-> [cart EXCEPT !.n = @ + 1],
     data |-> IF out.is_read THEN MemRead(cart.data, out.addr) ELSE data,
     ir |-> ir]

\* impl Chip for Rom: reads of 0x0000-0x7FFF
RomClock(cart, out, data, ir) ==
    [chip |-> [cart EXCEPT !.n = @ + 1],
     data |-> IF out.is_read /\ out.addr <= 32767 THEN MemRead(cart.data, out.addr) ELSE data,
     ir |-> ir]

\* DIV periods that grow with the TAC selector
div_compare_Ascending(tac) == CASE tac % 4 = 0 -> 16 [] tac % 4 = 1 -> 64 [] tac % 4 = 2 -> 256 [] tac % 4 = 3 -> 1024

\* the DIV period of a TIMA increment
div_compare(tac) == CASE tac % 4 = 0 -> 1024 [] tac % 4 = 1 -> 16 [] tac % 4 = 2 -> 64 [] tac % 4 = 3 -> 256

\* impl Chip for Timer
TimerClock(tm, out, data, ir) ==
    LET wr == ~out.is_read
        t1 == CASE wr /\ out.addr = 65284 -> [tm EXCEPT !.div = 0]
                [] wr /\ out.addr = 65285 -> [tm EXCEPT !.tima = out.data]
                [] wr /\ out.addr = 65286 -> [tm EXCEPT !.tma = out.data]
                [] wr /\ out.addr = 65287 -> [tm EXCEPT !.tac = out.data]
                [] OTHER -> tm
        d1 == CASE ~wr /\ out.addr = 65284 -> tm.div \div 256
                [] ~wr /\ out.addr = 65285 -> tm.tima
                [] ~wr /\ out.addr = 65286 -> tm.tma
                [] ~wr /\ out.addr = 65287 -> tm.tac
                [] OTHER -> data
        tima_write == wr /\ out.addr = 65285
        div == U16(t1.div + 4)
        timer_inc == Bit(t1.tac, 2) = 1 /\ div % div_compare(t1.tac) = 0
        carry == ~tima_write /\ timer_inc /\ t1.tima = 255
        tima == IF tima_write \/ ~timer_inc THEN t1.tima
                ELSE IF carry THEN t1.tma ELSE t1.tima + 1
    IN [chip |-> [t1 EXCEPT !.div = div, !.tima = tima, !.n = @ + 1],
        data |-> d1,
        ir |-> IF carry THEN Or8(ir, 4) ELSE ir,
        irq |-> carry]

bool_to_bit(b, bit) == IF b THEN 2 ^ bit ELSE 0

\* the four low bits of P1 for one button group: a held button reads 0
ButtonBits(b3, b2, b1, b0) ==
    15 - bool_to_bit(b3, 3) - bool_to_bit(b2, 2) - bool_to_bit(b1, 1) - bool_to_bit(b0, 0)

\* impl Chip for Joypad
JoypadClock(jp, out, data, ir) ==
    LET p1w == IF ~out.is_read /\ out.addr = 65280 THEN And8(out.data, 48) ELSE jp.p1
        d1 == IF out.is_read /\ out.addr = 65280 THEN jp.p1 ELSE data
        action_buttons == IF Bit(p1w, 5) = 0 THEN ButtonBits(jp.start, jp.select, jp.b, jp.a) ELSE 15
        direction_buttons == IF Bit(p1w, 4) = 0 THEN ButtonBits(jp.down, jp.up, jp.left, jp.right) ELSE 15
        old_p1 == p1w
        new_p1 == (old_p1 - (old_p1 % 16)) + And8(action_buttons, direction_buttons)
        interrupt == old_p1 % 16 = 15 /\ new_p1 % 16 # 15
    IN [chip |-> [jp EXCEPT !.p1 = new_p1, !.n = @ + 1],
        data |-> d1,
        ir |-> IF interrupt THEN Or8(ir, 16) ELSE ir,
        irq |-> interrupt]

----------------------------------------------------------------------------
(* Spec: the whole Gameboy.  Gameboy::clock resumes the CPU with the pins  *)
(* the previous call left, clocks the five chips in order, applies writes  *)
(* of IF and IE, and builds the pins of the next call.  The host presses   *)
(* and releases buttons between calls.                                     *)

MaxClocks == 80

\* LD SP,0xFFFE; LD A,0x1C; LDH (0xFF),A; LDH (0x0F),A; EI: three interrupts enabled and requested
ProgPriority == <<49, 254, 255, 62, 28, 224, 255, 224, 15, 251>>
\* LD A,2; LDH (0xFF),A; LD A,8; LDH (0x41),A; XOR A; LDH (0x0F),A: the STAT interrupt on HBlank
ProgStat == <<62, 2, 224, 255, 62, 8, 224, 65, 175, 224, 15>>
\* LD A,0x14; LDH (0xFF),A; LD A,0xFF; LDH (0x05),A; LD A,5; LDH (0x07),A: timer and joypad interrupts
ProgTimer == <<62, 20, 224, 255, 62, 255, 224, 5, 62, 5, 224, 7>>
\* NOP; HALT
ProgHalt == <<0, 118>>
\* STOP
ProgStop == <<16>>
\* LD A,0xFF; LDH (0x44),A; LD A,5; LDH (0x45),A: writes to LY and LYC
ProgLy == <<62, 255, 224, 68, 62, 5, 224, 69>>
\* LD A,0x5A; LD (0xC000),A; LD (0x8000),A; LD A,0xA5; LD (0xDFFF),A; LDH (0xFE),A;
\* LD (0xFE9F),A; then LD A,(..) of the same five addresses: work RAM, VRAM, high RAM, OAM
ProgRam == <<62, 90, 234, 0, 192, 234, 0, 128, 62, 165, 234, 255, 223, 224, 254, 234, 159, 254,
             250, 0, 192, 250, 0, 128, 250, 255, 223, 240, 254, 250, 159, 254>>
\* LD A,0x77; LD (0xFEA0),A; LD A,(0xFEA0); LDH (0x03),A; LDH A,(0x03); LD (0xA000),A;
\* LD A,(0xA000): addresses no chip answers at
ProgUnmapped == <<62, 119, 234, 160, 254, 250, 160, 254, 224, 3, 240, 3, 234, 0, 160, 250, 0, 160>>
\* LD A,0x5A; LD (0xC000),A; LD A,(0xE000); LD A,0x33; LD (0xFDFF),A; LD A,(0xDDFF): the
\* echo range against work RAM
ProgEcho == <<62, 90, 234, 0, 192, 250, 0, 224, 62, 51, 234, 255, 253, 250, 255, 221>>
\* LD A,0xFF; LDH (0x0F),A; LDH (0xFF),A; LDH A,(0x0F): IF and IE written with all bits
\* set, IF read back
ProgIf == <<62, 255, 224, 15, 224, 255, 240, 15>>
\* LD A,0x30; LDH (0x00),A; LD A,0x10; LDH (0x00),A: both button rows deselected, then the
\* action row selected
ProgJoypad == <<62, 48, 224, 0, 62, 16, 224, 0>>

Programs == {ProgPriority, ProgStat, ProgTimer, ProgHalt, ProgStop, ProgLy, ProgRam,
             ProgUnmapped, ProgEcho, ProgIf, ProgJoypad}

\* the 32 KiB ROM image holding program prog at address base (every other byte is 0)
RomImage(prog, base) == [a \in base..(base + Len(prog) - 1) |-> prog[a - base + 1]]

\* the buttons the host uses
Buttons == {"a", "down"}

\* the interrupt pins as an IE & IF mask
PinsMask(pins) ==
    bool_to_bit(pins.interrupt_40h, 0) + bool_to_bit(pins.interrupt_48h, 1)
    + bool_to_bit(pins.interrupt_50h, 2) + bool_to_bit(pins.interrupt_58h, 3)
    + bool_to_bit(pins.interrupt_60h, 4)

\* Gameboy::new(rom), or Gameboy::new(rom) followed by reset()
Init ==
    /\ \E reset \in BOOLEAN, prog \in Programs :
          /\ cpu = IF reset THEN [DefaultCpu EXCEPT !.pc = 256, !.sp = 65534] ELSE DefaultCpu
          /\ rom = NewRom(RomImage(prog, IF reset THEN 256 ELSE 0))
    /\ gen = InitGen
    /\ cpu_out = nop
    /\ panicked = FALSE
    /\ overflow_checks \in BOOLEAN
    /\ obs = InitObs(cpu)
    /\ cpu_input = InputPins(0, 0)
    /\ interrupt_enable = 0
    /\ interrupt_request = 0
    /\ timer = NewTimer
    /\ joypad = NewJoypad
    /\ ppu = NewPpu
    /\ memory = NewMemory
    /\ raised = 0
    /\ pending = 0
    /\ clocks = 0

\* Gameboy::clock
GbClock ==
    /\ ~panicked
    /\ clocks < MaxClocks
    /\ \E m2 \in {Resume(Machine, cpu_input)} :
       \E r1 \in {PpuClock(ppu, m2.out, 255, interrupt_request, overflow_checks)} :
       \E r2 \in {MemoryClock(memory, m2.out, r1.data, r1.ir)} :
       \E r3 \in {RomClock(rom, m2.out, r2.data, r2.ir)} :
       \E r4 \in {TimerClock(timer, m2.out, r3.data, r3.ir)} :
       \E r5 \in {JoypadClock(joypad, m2.out, r4.data, r4.ir)} :
       LET out == m2.out
           bus_output == r5.data
           if2 == IF ~out.is_read /\ out.addr = 65295 THEN And8(out.data, 31) ELSE r5.ir
           ie2 == IF ~out.is_read /\ out.addr = 65535 THEN And8(out.data, 31) ELSE interrupt_enable
           data2 == IF out.is_read /\ out.addr = 65295 THEN if2
                    ELSE IF out.is_read /\ out.addr = 65535 THEN ie2
                    ELSE bus_output
       IN IF m2.panic \/ r1.ppu.panic
          THEN /\ panicked' = TRUE
               /\ UNCHANGED <<cpu, gen, cpu_out, obs, overflow_checks, busVars, clocks>>
          ELSE /\ cpu' = CpuOf(m2)
               /\ gen' = GenOf(m2)
               /\ obs' = ObsOf(m2)
               /\ cpu_out' = out
               /\ ppu' = r1.ppu
               /\ memory' = r2.chip
               /\ rom' = r3.chip
               /\ timer' = r4.chip
               /\ joypad' = r5.chip
               /\ interrupt_request' = if2
               /\ interrupt_enable' = ie2
               /\ cpu_input' = InputPins(data2, And8(ie2, if2))
               /\ raised' = bool_to_bit(~ppu.vblank_irq /\ r1.ppu.vblank_irq, 0)
                            + bool_to_bit(~ppu.stat_irq /\ r1.ppu.stat_irq, 1)
                            + bool_to_bit(r4.irq, 2) + bool_to_bit(r5.irq, 4)
               /\ pending' = IF m2.ph = "L431" THEN PinsMask(cpu_input) ELSE pending
               /\ clocks' = clocks + 1
               /\ UNCHANGED <<panicked, overflow_checks>>

\* Joypad::press(button)
Press ==
    /\ ~panicked
    /\ \E button \in Buttons : joypad' = [joypad EXCEPT ![button] = TRUE]
    /\ UNCHANGED <<cpuVars, cpu_input, interrupt_enable, interrupt_request, timer, ppu, memory,
                   rom, raised, pending, clocks>>

\* Joypad::release(button)
Release ==
    /\ ~panicked
    /\ \E button \in Buttons : joypad' = [joypad EXCEPT ![button] = FALSE]
    /\ UNCHANGED <<cpuVars, cpu_input, interrupt_enable, interrupt_request, timer, ppu, memory,
                   rom, raised, pending, clocks>>

Next == GbClock \/ Press \/ Release

Spec == Init /\ [][Next]_vars

----------------------------------------------------------------------------
(* Properties of the whole Gameboy.                                        *)

\* C1: after a successful construction no clock() call panics, whatever the ROM holds:
\* every call returns normally.
C1_ClockNeverPanics == ~panicked

\* C2: each Gameboy::clock call that returns advances the CPU by exactly one M-cycle (one
\* yield of its generator) and clocks each of the PPU, Memory, Cart, Timer and Joypad
\* exactly once, whatever address is on the bus; the PPU advances exactly four T-states.
C2_OneCycleEveryChipOnce ==
    [][clocks' = clocks + 1 =>
          /\ obs'.n = 1 \/ obs'.n = obs.n + 1
          /\ ppu'.n = ppu.n + 1
          /\ ppu'.t = ppu.t + 4
          /\ memory'.n = memory.n + 1
          /\ rom'.n = rom.n + 1
          /\ timer'.n = timer.n + 1
          /\ joypad'.n = joypad.n + 1]_vars

\* a write to I/O (0xFF41) selects neither Memory nor the ROM, and both have been clocked
\* in each of the calls
C2_Witness ==
    /\ ~cpu_out.is_read /\ cpu_out.addr = 65345
    /\ clocks = 10 /\ memory.n = 10 /\ rom.n = 10 /\ timer.n = 10 /\ joypad.n = 10
    /\ ppu.n = 10 /\ ppu.t = 40

\* the index of the lowest bit set in a non-zero mask
LowestBit(mask) == CHOOSE b \in 0..7 : Bit(mask, b) = 1 /\ \A k \in 0..(b - 1) : Bit(mask, k) = 0

\* C3: when IME is set and several bits of IE & IF are pending at an instruction boundary,
\* the CPU dispatches the lowest pending bit, and once the dispatch is done that bit of IF
\* is 0 while the other pending bits are still set.
C3_LowestPendingDispatchedAndCleared ==
    (obs.unit = "isr" /\ gen.ph = "L448") =>
        LET b == (gen.vec - 64) \div 8
        IN /\ b = LowestBit(pending)
           /\ Bit(interrupt_request, b) = 0
           /\ \A k \in (0..4) \ {b} : Bit(pending, k) = 1 => Bit(interrupt_request, k) = 1

\* the CPU wrote IF in this clock call
WroteIf == ~cpu_out'.is_read /\ cpu_out'.addr = 65295

\* C5: a bit of IF goes from 1 to 0 only in a call where the CPU writes 0xFF0F or while
\* that interrupt is dispatched; and a bit goes from 0 to 1 only when a chip raises a new
\* request (or the CPU writes it).
C5_IfClearedOnlyByCpu ==
    [][\A b \in 0..4 :
          /\ (Bit(interrupt_request, b) = 1 /\ Bit(interrupt_request', b) = 0) =>
                (WroteIf \/ (obs'.unit = "isr" /\ gen'.vec = 64 + 8 * b))
          /\ (Bit(interrupt_request, b) = 0 /\ Bit(interrupt_request', b) = 1) =>
                (WroteIf \/ Bit(raised', b) = 1)]_vars

\* C6: when a chip has raised a request during a clock call and the matching IE bit is
\* set, the pins that call leaves for the next CPU clock have that interrupt flag set.
C6_RequestVisibleNextCall ==
    \A b \in 0..4 :
        (Bit(raised, b) = 1 /\ Bit(interrupt_enable, b) = 1) => Bit(PinsMask(cpu_input), b) = 1


\* C12: at every cycle the LY register (read at 0xFF44) is in the range 0..153, for any
\* sequence of CPU bus operations, CPU writes to 0xFF44 included.
C12_LyInRange == ppu.ly \in 0..153

\* C13: at every cycle STAT bit 2 (LYC_EQUALS_LY) is set if and only if LY = LYC, also in
\* the cycles right after a CPU write to LYC (0xFF45), to LY (0xFF44) or to STAT (0xFF41).
C13_LycFlagTracksLy == clocks >= 1 => ((Bit(ppu.stat, 2) = 1) <=> (ppu.ly = ppu.lyc))

\* the mode of the phase the PPU generator is suspended in: the yields of the OAM search,
\* of the drawing loop, of the HBlank loop and of the VBlank lines
PhaseMode(pos) ==
    CASE pos \in {"L298", "L299"} -> 2
      [] pos = "L335" -> 3
      [] pos = "L346" -> 0
      [] pos = "L358" -> 1

\* C14: the mode bits (bits 0-1) of STAT equal the PPU's current phase: 2 during OAM scan,
\* 3 while pixels are drawn, 0 during the rest of a visible line and 1 throughout lines
\* 144..153 (mode 1 only while LY is in 144..153); a CPU write to STAT does not change them.
C14_ModeBitsEqualPhase ==
    (clocks >= 1 /\ ~panicked) =>
        /\ ppu.stat % 4 = PhaseMode(ppu.pos)
        /\ ppu.stat % 4 = 1 => ppu.ly \in 144..153

----------------------------------------------------------------------------
(* The PPU alone, one T-state per step.  Chip::clock of the PPU is          *)
(* perform_io followed by four clock_t_state calls; the bus operation of    *)
(* a clock call therefore lands on every fourth T-state.                    *)

\* the T-states of a run: one frame of 154 * 456 T-states and the next up to its VBlank
MaxTStates == 136500
\* CPU register writes are offered during the first T-states only
WriteWindow == 80

\* the bus operations offered to the PPU: a read elsewhere, and writes of SCY, SCX and
\* LCDC (window enable; WX = WY = 0 puts the window on every line)
PpuOuts == {nop, WritePins(65346, 255), WritePins(65347, 5), WritePins(65344, 32)}

InitPpu ==
    /\ cpu = DefaultCpu
    /\ gen = InitGen
    /\ cpu_out = nop
    /\ panicked = FALSE
    /\ overflow_checks \in BOOLEAN
    /\ obs = InitObs(cpu)
    /\ RestBus
    /\ clocks = 0

\* one T-state of Chip::clock: perform_io before the first of its four clock_t_state calls
PpuTState ==
    /\ ~panicked
    /\ ppu.t < MaxTStates
    /\ \E out \in (IF ppu.t % 4 = 0 /\ ppu.t < WriteWindow THEN PpuOuts ELSE {nop}) :
       \E p1 \in {IF ppu.t % 4 = 0 THEN perform_io(ppu, out, 255, 0).ppu ELSE ppu} :
       \E p2 \in {clock_t_state(p1, overflow_checks)} :
          IF p2.panic
          THEN /\ panicked' = TRUE
               /\ UNCHANGED ppu
          ELSE /\ ppu' = p2
               /\ UNCHANGED panicked
    /\ UNCHANGED <<cpu, gen, cpu_out, overflow_checks, obs, cpu_input, interrupt_enable,
                   interrupt_request, timer, joypad, memory, rom, raised, pending, clocks>>

NextPpu == PpuTState

SpecPpu == InitPpu /\ [][NextPpu]_vars

\* the T-state the generator is suspended in, counted within its scanline, and that scanline
Dot == (ppu.t - 1) % 456
Line == ((ppu.t - 1) \div 456) % 154

\* the timing of the scanlines: line after line of 456 T-states, 80 of them in mode 2
LineTiming ==
    ppu.t >= 1 =>
        /\ ppu.scanline = Line
        /\ ppu.ly = Line
        /\ Line < 144 /\ Dot < 80 => (ppu.pos \in {"L298", "L299"} /\ ppu.stat % 4 = 2)
        /\ Line < 144 /\ Dot >= 80 => (ppu.pos \in {"L335", "L346"} /\ ppu.stat % 4 \in {3, 0})
        /\ Line >= 144 => (ppu.pos = "L358" /\ ppu.stat % 4 = 1)

\* C15: every scanline lasts exactly 456 T-states for every value of SCX, SCY, WX, WY and
\* LCDC: mode 2 lasts exactly 80 T-states and modes 3 and 0 fill the remaining 376, so LY
\* takes each value 0..153 in turn and returns to the same value every 70224 T-states.
C15_ScanlineIs456TStates == ~panicked /\ LineTiming

\* C16: the frame returned by get_frame() changes only at the transition into mode 1 (end
\* of line 143); between two such transitions every call returns the same complete
\* 160x144 frame, the one whose drawing finished most recently, and pixels being drawn
\* for the frame in progress are never visible in it.
C16_FrameFlipsAtModeOneEntry ==
    /\ [](/\ get_frame(ppu).cursor = FramePixels
          /\ get_frame(ppu).rest = get_frame(ppu).top
          /\ get_frame(ppu).top = (IF ppu.pos = "L358" THEN ppu.frame_no
                                   ELSE IF ppu.frame_no = 0 THEN 0 ELSE ppu.frame_no - 1))
    /\ [][get_frame(ppu)' # get_frame(ppu) =>
             /\ ppu.pos # "L358" /\ ppu.scanline = 143 /\ ppu.stat % 4 = 0
             /\ ppu'.pos = "L358" /\ ppu'.ly = 144 /\ ppu'.stat % 4 = 1]_vars

\* the second flip has happened: frame 2 is shown, and the buffer being drawn next still
\* holds frame 1
C16_Witness ==
    /\ ppu.pos = "L358" /\ ~panicked
    /\ get_frame(ppu) = [top |-> 2, cursor |-> FramePixels, rest |-> 2]
    /\ ppu.back_frame = [top |-> 1, cursor |-> FramePixels, rest |-> 1]

\* the addresses kept by the Memory chip (work RAM, high RAM) and by the PPU (VRAM, OAM)
IsRam(a) == address_is_in_range(a) \/ PpuMemAddr(a)
\* the byte the chip that keeps address a holds for it
Stored(a) == IF address_is_in_range(a) THEN MemRead(memory.ram, a) ELSE MemRead(ppu.mem, a)
\* the first and last address of each of the four regions
RamProbes == {49152, 57343, 65408, 65534, 32768, 40959, 65024, 65183}

\* C17: for every address a in work RAM, high RAM, VRAM or OAM and every byte v, a CPU
\* write of v to a followed, with no write to a in between, by a CPU read of a returns v:
\* a write of v to a leaves v held for a, nothing but a write to a changes the byte held
\* for a, and a read of a delivers the byte held for a to the CPU.
C17_RamRoundTrip ==
    /\ []((cpu_out.is_read /\ IsRam(cpu_out.addr) /\ clocks >= 1) =>
             cpu_input.data = Stored(cpu_out.addr))
    /\ [][\A a \in RamProbes :
             Stored(a)' = IF ~cpu_out'.is_read /\ cpu_out'.addr = a THEN cpu_out'.data
                          ELSE Stored(a)]_vars

\* 0xA5 was written to the last OAM byte, other addresses were written and read since,
\* and the read of 0xFE9F has put 0xA5 on the CPU's data pins
C17_Witness == cpu_out = ReadPins(65183) /\ cpu_input.data = 165 /\ ~panicked

\* the addresses some chip, or the IE/IF intercept of Gameboy::clock, answers at: cart ROM,
\* PPU memory and registers, work and high RAM, timer, joypad, IF and IE
Mapped(a) ==
    \/ a <= 32767
    \/ IsRam(a)
    \/ a \in 65344..65355
    \/ a \in 65284..65287
    \/ a \in {65280, 65295, 65535}

\* C18: a CPU read of an address that no chip maps delivers 0xFF to the CPU in the next
\* cycle, and a CPU write to such an address changes no chip state: every chip is left as
\* the same clock call with a read of that address leaves it.
C18_UnmappedReadsFFWritesDropped ==
    /\ []((cpu_out.is_read /\ ~Mapped(cpu_out.addr) /\ clocks >= 1) => cpu_input.data = 255)
    /\ [][(clocks' = clocks + 1 /\ ~cpu_out'.is_read /\ ~Mapped(cpu_out'.addr)) =>
             /\ ppu' = PpuClock(ppu, ReadPins(cpu_out'.addr), 255, interrupt_request,
                                overflow_checks).ppu
             /\ memory' = MemoryClock(memory, ReadPins(cpu_out'.addr), 255, 0).chip
             /\ rom' = RomClock(rom, ReadPins(cpu_out'.addr), 255, 0).chip
             /\ timer' = TimerClock(timer, ReadPins(cpu_out'.addr), 255, 0).chip
             /\ joypad' = JoypadClock(joypad, ReadPins(cpu_out'.addr), 255, 0).chip
             /\ interrupt_enable' = interrupt_enable]_vars

\* 0x77 was written to 0xFEA0 (A still holds it) and the read of 0xFEA0 has put 0xFF on
\* the CPU's data pins
C18_Witness ==
    /\ cpu_out = ReadPins(65184) /\ cpu_input.data = 255 /\ cpu.a = 119
    /\ memory.ram = <<>> /\ ppu.mem = <<>> /\ ~panicked

\* C19: a CPU read or write at an address a in the echo range 0xE000-0xFDFF behaves like
\* the same access at a - 0x2000 in work RAM: a byte written through either address is
\* read back through the other.
C19_EchoMirrorsWorkRam ==
    (clocks >= 1 /\ cpu_out.addr \in 57344..65023) =>
        IF cpu_out.is_read
        THEN cpu_input.data = MemRead(memory.ram, cpu_out.addr - 8192)
        ELSE MemRead(memory.ram, cpu_out.addr - 8192) = cpu_out.data

\* C20: a CPU write of v to 0xFF0F or to 0xFFFF stores only v & 0x1F in IF or IE, and a
\* CPU read of 0xFF0F returns the current IF in bits 0-4 with bits 5-7 all 1, whatever any
\* chip put on the data line.
C20_IeIfLowFiveBits ==
    clocks >= 1 =>
        /\ (~cpu_out.is_read /\ cpu_out.addr = 65295) => interrupt_request = cpu_out.data % 32
        /\ (~cpu_out.is_read /\ cpu_out.addr = 65535) => interrupt_enable = cpu_out.data % 32
        /\ (cpu_out.is_read /\ cpu_out.addr = 65295) =>
               cpu_input.data = 224 + (interrupt_request % 32)

\* C22: whenever the low nybble of the joypad register goes from 0xF in one M-cycle to a
\* value with some 0 bit in the next (a button of a selected row becomes pressed, or a CPU
\* write to 0xFF00 selects a row that has a held button), the joypad requests IF bit 4 in
\* that M-cycle.
C22_JoypadEdgeRequestsInterrupt ==
    [][(clocks' = clocks + 1 /\ joypad.p1 % 16 = 15 /\ joypad'.p1 % 16 # 15) =>
          (Bit(raised', 4) = 1 /\ (WroteIf \/ Bit(interrupt_request', 4) = 1))]_vars

----------------------------------------------------------------------------
(* The timer alone: Chip::clock of the Timer once per M-cycle, with the bus *)
(* operation of that cycle and the IF accumulator.                          *)

\* the M-cycles of a run: more than two TIMA periods at the slowest rate
MaxTimerClocks == 530
\* timer registers are written during the first M-cycles only
TimerWriteWindow == 4

\* the bus operations offered to the timer: a read elsewhere, and writes of TAC (four
\* enabled rates, one disabled), TIMA and TMA
TimerOuts ==
    {nop, WritePins(65287, 4), WritePins(65287, 5), WritePins(65287, 6), WritePins(65287, 7),
     WritePins(65287, 1), WritePins(65285, 255), WritePins(65286, 18)}

\* a write of one of DIV, TIMA, TMA, TAC
TimerWrite(out) == ~out.is_read /\ out.addr \in 65284..65287

InitTimer ==
    /\ cpu = DefaultCpu
    /\ gen = InitGen
    /\ cpu_out = nop
    /\ panicked = FALSE
    /\ overflow_checks = FALSE
    /\ obs = [since |-> 0, seen |-> FALSE]
    /\ RestBus
    /\ clocks = 0

\* one Chip::clock call of the timer; obs counts the calls since TIMA last changed
\* (seen: it changed since the last write of a timer register)
TimerStep ==
    /\ clocks < MaxTimerClocks
    /\ \E out \in (IF clocks < TimerWriteWindow THEN TimerOuts ELSE {nop}) :
       \E r \in {TimerClock(timer, out, 255, interrupt_request)} :
          /\ timer' = r.chip
          /\ interrupt_request' = r.ir
          /\ raised' = bool_to_bit(r.irq, 2)
          /\ cpu_out' = out
          /\ obs' = IF TimerWrite(out) THEN [since |-> 0, seen |-> FALSE]
                    ELSE IF r.chip.tima # timer.tima THEN [since |-> 0, seen |-> TRUE]
                    ELSE [obs EXCEPT !.since = @ + 1]
    /\ clocks' = clocks + 1
    /\ UNCHANGED <<cpu, gen, panicked, overflow_checks, cpu_input, interrupt_enable, joypad,
                   ppu, memory, rom, pending>>

NextTimer == TimerStep

SpecTimer == InitTimer /\ [][NextTimer]_vars

\* the TIMA period in M-cycles for the TAC selector: 1024, 16, 64, 256 T-states
TimaPeriod(tac) == CASE tac % 4 = 0 -> 256 [] tac % 4 = 1 -> 4 [] tac % 4 = 2 -> 16 [] tac % 4 = 3 -> 64

\* C21: while TAC bit 2 is set and the CPU writes no timer register, TIMA increments
\* exactly once every 1024, 16, 64 or 256 T-states according to TAC bits 1..0; when it
\* increments from 0xFF it is loaded with TMA instead of 0 and IF bit 2 is set in that same
\* M-cycle; while TAC bit 2 is clear TIMA never changes and the timer never sets IF bit 2.
C21_TimaRateReloadAndRequest ==
    [][(clocks' = clocks + 1 /\ ~TimerWrite(cpu_out')) =>
          IF Bit(timer.tac, 2) = 1
          THEN /\ timer'.tima # timer.tima =>
                     /\ obs.seen => obs.since + 1 = TimaPeriod(timer.tac)
                     /\ timer.tima = 255 =>
                            (timer'.tima = timer.tma /\ Bit(interrupt_request', 2) = 1)
                     /\ timer.tima # 255 =>
                            (timer'.tima = timer.tima + 1 /\ interrupt_request' = interrupt_request)
               /\ timer'.tima = timer.tima =>
                     (obs.since + 1 < TimaPeriod(timer.tac) /\ interrupt_request' = interrupt_request)
          ELSE timer'.tima = timer.tima /\ interrupt_request' = interrupt_request]_vars

\* at the slowest rate TIMA went from 0xFF to TMA = 0x12 with IF bit 2 set, and 1024
\* T-states later to 0x13
C21_Witness ==
    /\ timer.tac = 4 /\ timer.tma = 18 /\ timer.tima = 19 /\ interrupt_request = 4
    /\ obs = [since |-> 0, seen |-> TRUE]

----------------------------------------------------------------------------
(* The cartridge alone: Cart::new applied to a ROM file, then the mapper    *)
(* clocked with bus operations through chip_select.                         *)

\* A ROM file is told by its length and its byte 0x147; every other byte holds the number
\* of its 16 KiB bank plus one, so that the banks, and the zero padding, can be told apart.
ImageByte(image, i) ==
    IF i >= image.len THEN 0
    ELSE IF i = 327 THEN image.id
    ELSE (i \div 16384) + 1

\* the lengths of the ROM files offered: empty, one byte short of holding 0x147, just
\* holding it, 32 KiB, 1 MiB and 2 MiB
RomLens == {0, 327, 328, 32768, 1048576, 2097152}
\* the bytes offered at 0x147: ROM only, the three MBC1 kinds, and two other ids
MapperIds == {0, 1, 2, 3, 4, 19}

\* Rom::new: len = usize::max(data.len(), 0x8000); buf[..len].copy_from_slice(&data[..len])
\* slices the 32 KiB buffer and the file to len, in range for both only at 32 KiB
Rom_new(image) ==
    LET len == IF image.len > 32768 THEN image.len ELSE 32768
    IN IF len > 32768 \/ len > image.len
       THEN [result |-> "panic", cart |-> [kind |-> "none"]]
       ELSE [result |-> "ok", cart |-> [kind |-> "rom", image |-> image]]

\* Mbc1Generic::new: the whole 16 KiB chunks, the remainder as one more bank, zero banks
\* up to 0x80, then assert_eq!(data.len(), 0x80)
Mbc1_new(image, has_ram) ==
    IF (image.len \div 16384) + 1 > 128
    THEN [result |-> "panic", cart |-> [kind |-> "none"]]
    ELSE [result |-> "ok",
          cart |-> [kind |-> "mbc1", image |-> image, has_ram |-> has_ram, ram |-> <<>>,
                    ram_enable |-> FALSE, rom_bank_lower |-> 1, rom_bank_upper |-> 0,
                    mode_select |-> FALSE]]

\* mapper_from_id
mapper_from_id(id, image) ==
    CASE id = 0 -> Rom_new(image)
      [] id = 1 -> Mbc1_new(image, FALSE)
      [] id \in {2, 3} -> Mbc1_new(image, TRUE)
      [] OTHER -> [result |-> "panic", cart |-> [kind |-> "none"]]

\* Cart::new
Cart_new(image) ==
    IF image.len <= 327
    THEN [result |-> "Invalid ROM file", cart |-> [kind |-> "none"]]
    ELSE mapper_from_id(ImageByte(image, 327), image)

\* byte off of bank idx of the 0x80 banks Mbc1Generic::new built
BankByte(c, idx, off) == ImageByte(c.image, idx * 16384 + off)

\* Mbc1Generic::bank_0: the index of the bank
bank_0(c) == IF c.mode_select THEN (c.rom_bank_upper * 32) % 256 ELSE 0

\* Mbc1Generic::bank_1: the index of the bank.  `self.rom_bank_upper << 5 + lower` shifts
\* by 5 + lower (+ binds tighter than <<); a u8 shift by 8 or more panics with overflow
\* checks and is taken modulo 8 without them.
bank_1(c, oc) ==
    LET lower == IF c.rom_bank_lower = 0 THEN 1 ELSE c.rom_bank_lower
    IN IF ~c.mode_select THEN [panic |-> FALSE, idx |-> 0]
       ELSE IF 5 + lower >= 8 /\ oc THEN [panic |-> TRUE, idx |-> 0]
       ELSE [panic |-> FALSE, idx |-> (c.rom_bank_upper * 2 ^ ((5 + lower) % 8)) % 256]

\* impl Chip for Mbc1Generic: clock, for an address chip_select accepts
Mbc1Clock(c, out, oc) ==
    LET a == out.addr
        v == out.data
        b1 == bank_1(c, oc)
    IN IF out.is_read
       THEN CASE a <= 16383 -> [chip |-> c, data |-> BankByte(c, bank_0(c), a), panic |-> FALSE]
              [] a \in 16384..32767 ->
                   IF b1.panic \/ b1.idx >= 128
                   THEN [chip |-> c, data |-> 0, panic |-> TRUE]
                   ELSE [chip |-> c, data |-> BankByte(c, b1.idx, a - 16384), panic |-> FALSE]
              [] a \in 40960..49151 ->
                   [chip |-> c,
                    data |-> IF c.ram_enable /\ c.has_ram THEN MemRead(c.ram, a - 40960) ELSE 0,
                    panic |-> FALSE]
       ELSE [chip |-> CASE a <= 8191 -> [c EXCEPT !.ram_enable = (v % 16 = 10)]
                        [] a \in 8192..16383 -> [c EXCEPT !.rom_bank_lower = v % 32]
                        [] a \in 16384..24575 -> [c EXCEPT !.rom_bank_upper = v % 4]
                        [] a \in 24576..32767 -> [c EXCEPT !.mode_select = (v # 0)]
                        [] a \in 40960..49151 ->
                             IF c.ram_enable /\ c.has_ram
                             THEN [c EXCEPT !.ram = MemWrite(c.ram, a - 40960, v)]
                             ELSE c,
             data |-> 0, panic |-> FALSE]

\* impl Chip for Rom (the chip_select interface): a read returns data[addr]
RomChipClock(c, out) ==
    [chip |-> c, data |-> IF out.is_read THEN ImageByte(c.image, out.addr) ELSE 0, panic |-> FALSE]

\* chip_select of the mapper
cart_chip_select(c, addr) ==
    IF c.kind = "rom" THEN addr <= 32767 ELSE addr <= 32767 \/ addr \in 40960..49151

\* the bus operations offered to the cartridge
CartOuts ==
    {ReadPins(0), ReadPins(16383), ReadPins(16384), ReadPins(32767), ReadPins(40960),
     ReadPins(49151), ReadPins(49152),
     WritePins(0, 10), WritePins(0, 0), WritePins(8191, 26),
     WritePins(8192, 0), WritePins(8192, 2), WritePins(16383, 225),
     WritePins(16384, 0), WritePins(16384, 1), WritePins(24576, 0), WritePins(24576, 1),
     WritePins(40960, 90), WritePins(40960, 51), WritePins(49151, 119)}

InitCart ==
    /\ cpu = DefaultCpu
    /\ gen = InitGen
    /\ cpu_out = nop
    /\ panicked = FALSE
    /\ overflow_checks \in BOOLEAN
    /\ obs = [result |-> "none", clocked |-> FALSE]
    /\ cpu_input = InputPins(0, 0)
    /\ interrupt_enable = 0
    /\ interrupt_request = 0
    /\ timer = NewTimer
    /\ joypad = NewJoypad
    /\ ppu = NewPpu
    /\ memory = NewMemory
    /\ \E len \in RomLens, id \in MapperIds : rom = [kind |-> "file", image |-> [len |-> len, id |-> id]]
    /\ raised = 0
    /\ pending = 0
    /\ clocks = 0

\* Cart::new on the ROM file: a cart, an error value, or a panic
CartNew ==
    /\ obs.result = "none"
    /\ \E r \in {Cart_new(rom.image)} :
          /\ obs' = [obs EXCEPT !.result = r.result]
          /\ rom' = IF r.result = "ok" THEN r.cart ELSE rom
          /\ panicked' = (r.result = "panic")
    /\ UNCHANGED <<cpu, gen, cpu_out, overflow_checks, cpu_input, interrupt_enable,
                   interrupt_request, timer, joypad, ppu, memory, raised, pending, clocks>>

\* one bus cycle of the cart: clock when chip_select accepts the address; otherwise
\* clock_unselected (nothing) and the empty bus gives CpuInputPins::default(); obs.clocked
\* tells that cpu_out and cpu_input are those of a bus cycle
CartClock ==
    /\ obs.result = "ok"
    /\ ~panicked
    /\ \E out \in CartOuts :
       \E r \in {IF ~cart_chip_select(rom, out.addr) THEN [chip |-> rom, data |-> 0, panic |-> FALSE]
                 ELSE IF rom.kind = "rom" THEN RomChipClock(rom, out)
                 ELSE Mbc1Clock(rom, out, overflow_checks)} :
          IF r.panic
          THEN /\ panicked' = TRUE
               /\ UNCHANGED <<rom, cpu_out, cpu_input, obs>>
          ELSE /\ rom' = r.chip
               /\ cpu_out' = out
               /\ cpu_input' = InputPins(r.data, 0)
               /\ obs' = [obs EXCEPT !.clocked = TRUE]
               /\ UNCHANGED panicked
    /\ UNCHANGED <<cpu, gen, overflow_checks, interrupt_enable, interrupt_request, timer,
                   joypad, ppu, memory, raised, pending, clocks>>

NextCart == CartNew \/ CartClock

SpecCart == InitCart /\ [][NextCart]_vars

\* C23: for every byte vector passed as ROM, construction returns either a core or a typed
\* error and never panics: a ROM too short to contain header byte 0x147 yields
\* Err("Invalid ROM file"), and an unknown mapper id or an invalid ROM length yields an
\* error value.
C23_ConstructionNeverPanics ==
    /\ obs.result # "panic"
    /\ (obs.result # "none" /\ rom.kind = "file" /\ rom.image.len <= 327) =>
           obs.result = "Invalid ROM file"

\* the bank the MBC1 registers select for 0x4000-0x7FFF: (upper << 5) | low, low 0 taken as 1
SelectedBank(c) == c.rom_bank_upper * 32 + (IF c.rom_bank_lower = 0 THEN 1 ELSE c.rom_bank_lower)

\* C24: an MBC1 read at a in 0x4000-0x7FFF returns byte (a - 0x4000) of ROM bank
\* (upper << 5) | low in both banking modes, low being the last value & 0x1F written to
\* 0x2000-0x3FFF with 0 replaced by 1 and upper the last value & 3 written to
\* 0x4000-0x5FFF; a read at 0x0000-0x3FFF returns bank 0, or bank upper << 5 in mode 1.
C24_Mbc1BankedReads ==
    (obs.result = "ok" /\ rom.kind = "mbc1") =>
        /\ ~panicked
        /\ (obs.clocked /\ cpu_out.is_read /\ cpu_out.addr \in 16384..32767) =>
               cpu_input.data = BankByte(rom, SelectedBank(rom), cpu_out.addr - 16384)
        /\ (obs.clocked /\ cpu_out.is_read /\ cpu_out.addr <= 16383) =>
               cpu_input.data = BankByte(rom, IF rom.mode_select THEN rom.rom_bank_upper * 32 ELSE 0,
                                         cpu_out.addr)

\* a bus operation in the cartridge RAM window 0xA000-0xBFFF
RamWindow(out) == out.addr \in 40960..49151

\* C25: on an MBC1 cartridge with RAM the window 0xA000-0xBFFF is accessible only while
\* RAM is enabled: while disabled a read returns 0xFF and a write leaves the RAM
\* unchanged; a byte written while enabled is kept across a disable and re-enable and
\* read back.
C25_Mbc1RamGate ==
    /\ []((obs.result = "ok" /\ rom.kind = "mbc1" /\ rom.has_ram /\ obs.clocked
             /\ cpu_out.is_read /\ RamWindow(cpu_out)) =>
            cpu_input.data = IF rom.ram_enable THEN MemRead(rom.ram, cpu_out.addr - 40960) ELSE 255)
    /\ [][(obs.result = "ok" /\ rom.kind = "mbc1" /\ rom.has_ram /\ rom'.ram # rom.ram) =>
            /\ rom.ram_enable
            /\ ~cpu_out'.is_read /\ RamWindow(cpu_out')
            /\ rom'.ram = MemWrite(rom.ram, cpu_out'.addr - 40960, cpu_out'.data)]_vars

----------------------------------------------------------------------------
(* The whole Gameboy with reset() called by the host between two clocks.    *)

\* reset() is offered to the host between these two clocks, when the programs have
\* written IE and IF
ResetFrom == 8
ResetTo == 10

\* Gameboy::reset
Reset ==
    /\ ~panicked
    /\ clocks \in ResetFrom..ResetTo
    /\ cpu' = [cpu EXCEPT !.pc = 256, !.sp = 65534]
    /\ UNCHANGED <<gen, cpu_out, panicked, overflow_checks, obs, busVars, clocks>>

NextReset == GbClock \/ Press \/ Release \/ Reset

SpecReset == Init /\ [][NextReset]_vars

\* a step of the host that is neither a clock, a press nor a release: the call of reset()
ResetStep == clocks' = clocks /\ joypad' = joypad /\ panicked' = panicked

\* C26: after reset(), PC = 0x0100, SP = 0xFFFE, IE = 0 and IF = 0, whatever the state
\* before the call.
C26_ResetState ==
    [][ResetStep => (cpu'.pc = 256 /\ cpu'.sp = 65534
                     /\ interrupt_enable' = 0 /\ interrupt_request' = 0)]_vars

----------------------------------------------------------------------------
(* The PPU and the work RAM on the bus, with the bus operations of the CPU  *)
(* drawn from a set: the OAM DMA register 0xFF46.                           *)

\* oam: [u8; 0xFEA0 - 0xFE00]
OamLen == 160
\* the calls of clock checked, and the first calls, in which the CPU writes
MaxDmaClocks == 166
DmaWriteWindow == 3

\* the bus operations offered: two bytes of work RAM, and 0xC0 to 0xFF46
DmaOuts == {nop, WritePins(49152, 90), WritePins(49311, 165), WritePins(65350, 192)}

\* obs.d: the byte last written to 0xFF46 with no other write since (-1: none);
\* obs.since: the calls of clock since that write
InitDma ==
    /\ cpu = DefaultCpu
    /\ gen = InitGen
    /\ cpu_out = nop
    /\ panicked = FALSE
    /\ overflow_checks \in BOOLEAN
    /\ obs = [d |-> -1, since |-> 0]
    /\ RestBus
    /\ clocks = 0

\* Gameboy::clock as the PPU and Memory see it
DmaStep ==
    /\ ~panicked
    /\ clocks < MaxDmaClocks
    /\ \E out \in (IF clocks < DmaWriteWindow THEN DmaOuts ELSE {nop}) :
       \E r1 \in {PpuClock(ppu, out, 255, interrupt_request, overflow_checks)} :
       \E r2 \in {MemoryClock(memory, out, r1.data, r1.ir)} :
          IF r1.ppu.panic
          THEN /\ panicked' = TRUE
               /\ UNCHANGED <<cpu_out, obs, ppu, memory, interrupt_request, cpu_input, clocks>>
          ELSE /\ cpu_out' = out
               /\ ppu' = r1.ppu
               /\ memory' = r2.chip
               /\ interrupt_request' = r2.ir
               /\ cpu_input' = InputPins(r2.data, And8(interrupt_enable, r2.ir))
               /\ obs' = IF ~out.is_read /\ out.addr = 65350 THEN [d |-> out.data, since |-> 0]
                         ELSE IF ~out.is_read THEN [d |-> -1, since |-> 0]
                         ELSE [obs EXCEPT !.since = @ + 1]
               /\ clocks' = clocks + 1
               /\ UNCHANGED panicked
    /\ UNCHANGED <<cpu, gen, overflow_checks, interrupt_enable, timer, joypad, rom, raised, pending>>

NextDma == DmaStep

SpecDma == InitDma /\ [][NextDma]_vars

\* the byte the bus holds at a source address of the transfer
DmaSource(a) ==
    IF address_is_in_range(a) THEN MemRead(memory.ram, a)
    ELSE IF PpuMemAddr(a) THEN MemRead(ppu.mem, a)
    ELSE 255

\* the OAM offsets looked at: the first and the last
DmaProbes == {0, OamLen - 1}

\* C27: a write of d to 0xFF46 copies the 160 bytes from (d << 8).. into OAM
\* 0xFE00-0xFE9F within 160 M-cycles.
C27_OamDmaCopies ==
    (obs.d # -1 /\ obs.since >= OamLen) =>
        \A i \in DmaProbes : MemRead(ppu.mem, 65024 + i) = DmaSource(obs.d * 256 + i)

----------------------------------------------------------------------------
(* The ALU alone: do_math applied to accumulators, flags and operands drawn *)
(* from sets.                                                               *)

\* the accumulators and operands offered
AluBytes == {0, 1, 12, 15, 16, 17, 127, 128, 240, 255}
\* the flag registers offered: all clear, carry alone, all but carry
AluFlags == {0, CARRY, ZERO + NEGATIVE + HALFCARRY}
\* MathOperation
MathOperations == {"Add", "Adc", "Sub", "Sbc", "And", "Xor", "Or", "Cp"}
\* the operations done in a row
MaxAluOps == 2

\* obs: the operation done last, with the accumulator, the flags and the operand it began with
InitAlu ==
    /\ \E a \in AluBytes, f \in AluFlags : cpu = [DefaultCpu EXCEPT !.a = a, !.f = f]
    /\ gen = InitGen
    /\ cpu_out = nop
    /\ panicked = FALSE
    /\ overflow_checks = FALSE
    /\ obs = [op |-> "none", a0 |-> 0, f0 |-> 0, v |-> 0]
    /\ RestBus
    /\ clocks = 0

\* Cpu::do_math(v, operation)
AluStep ==
    /\ clocks < MaxAluOps
    /\ \E v \in AluBytes, operation \in MathOperations :
          /\ cpu' = do_math(cpu, v, operation)
          /\ obs' = [op |-> operation, a0 |-> cpu.a, f0 |-> cpu.f, v |-> v]
    /\ clocks' = clocks + 1
    /\ UNCHANGED <<gen, cpu_out, panicked, overflow_checks, busVars>>

NextAlu == AluStep

SpecAlu == InitAlu /\ [][NextAlu]_vars

\* flag C, bit 4 of F, before the operation
CarryBefore == Bit(obs.f0, 4)

\* C29: ADD A,v (c = 0) and ADC A,v (c = flag C before) set A = (A + v + c) mod 256,
\* Z = (result = 0), N = 0, H = carry out of bit 3 of A + v + c, C = carry out of bit 7;
\* ADC adds 1 exactly when flag C was set.
C29_AddAdc ==
    obs.op \in {"Add", "Adc"} =>
        LET c == IF obs.op = "Adc" THEN CarryBefore ELSE 0
            sum == obs.a0 + obs.v + c
        IN /\ cpu.a = sum % 256
           /\ Bit(cpu.f, 7) = (IF sum % 256 = 0 THEN 1 ELSE 0)
           /\ Bit(cpu.f, 6) = 0
           /\ Bit(cpu.f, 5) = (IF (obs.a0 % 16) + (obs.v % 16) + c >= 16 THEN 1 ELSE 0)
           /\ Bit(cpu.f, 4) = (IF sum >= 256 THEN 1 ELSE 0)

\* C30: SUB, SBC and CP compute r = (A - v - c) mod 256 (c = flag C before, for SBC only)
\* with N = 1, Z = (r = 0), H = 1 iff the low nybble of A is below the low nybble of v
\* plus c, C = 1 iff A < v + c; SUB and SBC store r in A, CP leaves A unchanged.
C30_SubSbcCp ==
    obs.op \in {"Sub", "Sbc", "Cp"} =>
        LET c == IF obs.op = "Sbc" THEN CarryBefore ELSE 0
            r == (obs.a0 - obs.v - c) % 256
        IN /\ cpu.a = (IF obs.op = "Cp" THEN obs.a0 ELSE r)
           /\ Bit(cpu.f, 7) = (IF r = 0 THEN 1 ELSE 0)
           /\ Bit(cpu.f, 6) = 1
           /\ Bit(cpu.f, 5) = (IF obs.a0 % 16 < (obs.v % 16) + c THEN 1 ELSE 0)
           /\ Bit(cpu.f, 4) = (IF obs.a0 < obs.v + c THEN 1 ELSE 0)

----------------------------------------------------------------------------
(* The CPU runner with a memory, as InstructionTest runs it: one            *)
(* instruction from a set of register files, or a PUSH followed by a POP.   *)
(* memory.ram keeps the bytes the CPU wrote; pending keeps the registers    *)
(* the runner was created with.                                             *)

\* HL and BC as <<h, l, b, c>>: the additions of the add_hl test, and one that carries out
\* of bit 11 but not out of the low byte
HlBcPairs ==
    {<<1, 5, 1, 11>>, <<0, 255, 0, 1>>, <<255, 255, 0, 1>>, <<255, 0, 1, 0>>,
     <<255, 255, 255, 255>>, <<15, 0, 1, 0>>}
\* the bytes offered in A and D
InstrBytes == {0, 1, 15, 16, 127, 128, 129, 255}
\* the flag registers offered
InstrFlags == {0, CARRY, ZERO, ZERO + NEGATIVE + HALFCARRY + CARRY}
\* the stack pointers offered
InstrSps == {65534, 1}

InstrCpus ==
    { [DefaultCpu EXCEPT !.pc = 256, !.sp = sp, !.a = v, !.f = f, !.d = v, !.e = 52,
                         !.h = r[1], !.l = r[2], !.b = r[3], !.c = r[4]] :
        r \in HlBcPairs, v \in InstrBytes, f \in InstrFlags, sp \in InstrSps }

\* ADD HL,rr; INC and DEC of D and A; RLCA RRCA RLA RRA; the CB prefix;
\* JR cc; JP cc; CALL cc; RET cc; PUSH and POP
AddHlOpcodes == {9, 25, 41, 57}
IncOpcodes == {20, 60}
DecOpcodes == {21, 61}
RotAOpcodes == {7, 15, 23, 31}
CondOpcodes == {32, 40, 48, 56, 194, 202, 210, 218, 196, 204, 212, 220, 192, 200, 208, 216}
PushOpcodes == {197, 213, 229, 245}
PopOpcodes == {193, 209, 225, 241}
InstrOpcodes ==
    AddHlOpcodes \cup IncOpcodes \cup DecOpcodes \cup RotAOpcodes \cup {203} \cup CondOpcodes
    \cup PushOpcodes \cup PopOpcodes
\* after the CB prefix: RLC RRC RL RR SLA SRA SWAP SRL of D
CbOpcodes == {2, 10, 18, 26, 34, 42, 50, 58}
\* the bytes a read of a location not written yet returns
InstrOperands == {5, 251}

InitInstr ==
    /\ cpu \in InstrCpus
    /\ gen = InitGen
    /\ cpu_out = nop
    /\ panicked = FALSE
    /\ overflow_checks \in BOOLEAN
    /\ obs = InitObs(cpu)
    /\ cpu_input = InputPins(0, 0)
    /\ interrupt_enable = 0
    /\ interrupt_request = 0
    /\ timer = NewTimer
    /\ joypad = NewJoypad
    /\ ppu = NewPpu
    /\ memory = NewMemory
    /\ rom = NewRom(<<>>)
    /\ raised = 0
    /\ pending = cpu
    /\ clocks = 0

\* the byte the memory answers the last bus operation with
InstrData ==
    IF gen.ph = "L453" THEN (IF obs.count = 0 THEN InstrOpcodes ELSE PopOpcodes)
    ELSE IF gen.ph = "L995" THEN CbOpcodes
    ELSE IF cpu_out.is_read /\ cpu_out.addr \in DOMAIN memory.ram THEN {memory.ram[cpu_out.addr]}
    ELSE InstrOperands

\* one step of InstructionTest::run: the memory answers, the runner is clocked, a write
\* is stored
InstrClock ==
    /\ ~panicked
    /\ obs.count = 0 \/ (obs.count = 1 /\ obs.last.op \in PushOpcodes)
    /\ \E data \in InstrData :
          /\ CpuRunnerClock(InputPins(data, 0))
          /\ cpu_input' = InputPins(data, 0)
    /\ memory' = IF ~panicked' /\ ~cpu_out'.is_read
                 THEN [memory EXCEPT !.ram = MemWrite(@, cpu_out'.addr, cpu_out'.data)]
                 ELSE memory
    /\ clocks' = clocks + 1
    /\ UNCHANGED <<interrupt_enable, interrupt_request, timer, joypad, ppu, rom, raised, pending>>

NextInstr == InstrClock

SpecInstr == InitInstr /\ [][NextInstr]_vars

\* the first instruction is finished and it was op
Done(ops) == ~panicked /\ obs.count = 1 /\ obs.n = 1 /\ obs.last.op \in ops

\* the register pair an ADD HL,rr adds, before the instruction
AddendOf(op) ==
    CASE op = 9 -> get_bc(pending) [] op = 25 -> get_de(pending)
      [] op = 41 -> get_hl(pending) [] op = 57 -> pending.sp

\* C31: ADD HL,rr sets HL to (HL + rr) mod 2^16, clears N, sets H exactly when the
\* addition carries out of bit 11, sets C exactly when it carries out of bit 15, and
\* leaves Z unchanged.
C31_AddHlFlags ==
    Done(AddHlOpcodes) =>
        LET hl == get_hl(pending)
            rr == AddendOf(obs.last.op)
        IN /\ get_hl(cpu) = (hl + rr) % 65536
           /\ Bit(cpu.f, 6) = 0
           /\ Bit(cpu.f, 5) = (IF (hl % 4096) + (rr % 4096) >= 4096 THEN 1 ELSE 0)
           /\ Bit(cpu.f, 4) = (IF hl + rr >= 65536 THEN 1 ELSE 0)
           /\ Bit(cpu.f, 7) = Bit(pending.f, 7)

\* C32: ADD HL,BC gives HL = (HL + BC) mod 2^16, N clear, C set exactly when the 16-bit
\* sum overflows and H set exactly when the low bytes L + C overflow 8 bits.
C32_AddHlBcAsTested ==
    Done({9}) =>
        LET hl == get_hl(pending)
            bc == get_bc(pending)
        IN /\ get_hl(cpu) = (hl + bc) % 65536
           /\ Bit(cpu.f, 6) = 0
           /\ Bit(cpu.f, 5) = (IF pending.l + pending.c >= 256 THEN 1 ELSE 0)
           /\ Bit(cpu.f, 4) = (IF hl + bc >= 65536 THEN 1 ELSE 0)
           /\ get_bc(cpu) = bc
\* 0x00FF + 0x0001 has given 0x0100 with only H set
C32_Witness ==
    /\ Done({9})
    /\ get_hl(pending) = 255 /\ get_bc(pending) = 1 /\ pending.f = 0
    /\ get_hl(cpu) = 256 /\ cpu.f = HALFCARRY

\* the register INC r or DEC r works on, in a register file: D for 0x14 0x15, A for 0x3C 0x3D
IncDecReg(c, op) == IF op \in {20, 21} THEN c.d ELSE c.a

\* C33: INC r and DEC r leave flag C unchanged and set Z = (result = 0); INC r clears N
\* and sets H exactly when the low nybble of the operand was 0xF; DEC r sets N and sets
\* H exactly when the low nybble of the operand was 0x0.
C33_IncDecFlags ==
    Done(IncOpcodes \cup DecOpcodes) =>
        LET inc == obs.last.op \in IncOpcodes
            v == IncDecReg(pending, obs.last.op)
            r == IF inc THEN (v + 1) % 256 ELSE (v + 255) % 256
        IN /\ IncDecReg(cpu, obs.last.op) = r
           /\ Bit(cpu.f, 4) = Bit(pending.f, 4)
           /\ Bit(cpu.f, 7) = (IF r = 0 THEN 1 ELSE 0)
           /\ Bit(cpu.f, 6) = (IF inc THEN 0 ELSE 1)
           /\ Bit(cpu.f, 5) = (IF v % 16 = (IF inc THEN 15 ELSE 0) THEN 1 ELSE 0)

\* the bit a rotate or shift moves out of v: bit 7 going left (RLC RL SLA, y = 0 2 4),
\* bit 0 going right (RRC RR SRA SRL, y = 1 3 5 7)
EjectedBit(v, y) == IF y \in {0, 2, 4} THEN Bit(v, 7) ELSE Bit(v, 0)

\* C34: after a CB-prefixed RLC RRC RL RR SLA SRA SRL, flag C equals the bit shifted out
\* of the operand, Z = (result = 0), N = 0 and H = 0; RLCA RRCA RLA RRA give the same
\* result and the same C on register A but always leave Z = 0.
C34_RotateShiftFlags ==
    /\ (Done({203}) /\ OpY(obs.last.cb) # 6) =>
          /\ Bit(cpu.f, 4) = EjectedBit(pending.d, OpY(obs.last.cb))
          /\ Bit(cpu.f, 7) = (IF cpu.d = 0 THEN 1 ELSE 0)
          /\ Bit(cpu.f, 6) = 0
          /\ Bit(cpu.f, 5) = 0
    /\ Done(RotAOpcodes) =>
          /\ cpu.a = do_rotate_shift(pending, pending.a, rot(OpY(obs.last.op)))[1]
          /\ Bit(cpu.f, 4) = EjectedBit(pending.a, OpY(obs.last.op))
          /\ Bit(cpu.f, 7) = 0

\* the condition of a conditional JR (y = 4..7) or JP, CALL, RET (y = 0..3), on flags f
CondHolds(f, op) ==
    LET i == OpY(op) % 4
    IN CASE i = 0 -> Bit(f, 7) = 0
         [] i = 1 -> Bit(f, 7) = 1
         [] i = 2 -> Bit(f, 4) = 0
         [] i = 3 -> Bit(f, 4) = 1

\* the address of the instruction that follows a conditional one: JR cc is 2 bytes,
\* JP cc and CALL cc are 3, RET cc is 1
FallThrough(op) ==
    U16(pending.pc + (IF op < 64 THEN 2 ELSE IF OpZ(op) = 0 THEN 1 ELSE 3))

\* C35: a conditional JP, JR, CALL or RET transfers control exactly when its condition
\* holds for the current flags, and otherwise continues with the instruction that
\* follows it.  (No target offered is the address of the following instruction.)
C35_ConditionDecidesTransfer ==
    Done(CondOpcodes) =>
        (CondHolds(pending.f, obs.last.op) <=> cpu_out.addr # FallThrough(obs.last.op))

\* the register pair of a PUSH or POP opcode in a register file: BC DE HL AF
StackPair(c, op) ==
    CASE OpP(op) = 0 -> get_bc(c) [] OpP(op) = 1 -> get_de(c)
      [] OpP(op) = 2 -> get_hl(c) [] OpP(op) = 3 -> get_af(c)

\* C40: PUSH rr lowers SP by 2 and writes the high byte of rr to the old SP-1 and the low
\* byte to the old SP-2, so that PUSH rr followed immediately by POP rr restores rr and
\* leaves SP equal to its value before the PUSH.
C40_PushPopRoundTrip ==
    /\ Done(PushOpcodes) =>
          LET rr == StackPair(pending, obs.last.op)
          IN /\ cpu.sp = U16(pending.sp + 65534)
             /\ MemRead(memory.ram, U16(pending.sp + 65535)) = Hi(rr)
             /\ MemRead(memory.ram, U16(pending.sp + 65534)) = Lo(rr)
    /\ (~panicked /\ obs.count = 2 /\ obs.n = 1 /\ obs.last.op \in PopOpcodes) =>
          /\ StackPair(cpu, obs.last.op) = StackPair(pending, obs.last.op)
          /\ cpu.sp = pending.sp

----------------------------------------------------------------------------
(* The scanline loop of the PPU generator: the window line counter.         *)

\* the generator is suspended in the visible part of a scanline, before its HBlank
BeforeHBlank == ppu.pos \in {"L298", "L299", "L335"}

\* C37: the window line counter is incremented at the end of a scanline only if that
\* scanline drew at least one window pixel (a line draws window pixels only after it has
\* entered the window): with the window disabled or WX off-screen it keeps its value
\* even after LY has reached WY, and it starts at 0 in every frame.
C37_WindowLinesCountWindowLines ==
    /\ []((ppu.t >= 1 /\ ppu.scanline = 0 /\ BeforeHBlank) => ppu.window_lines = 0)
    /\ [][ppu'.window_lines # ppu.window_lines =>
             \/ ppu'.window_lines = 0
             \/ ppu'.window_lines = ppu.window_lines + 1 /\ ppu.inside_window]_vars

----------------------------------------------------------------------------
(* The OAM search.  The CPU fills the OAM and sets LCDC while line 0 is     *)
(* scanned, one write per M-cycle, and the PPU is then clocked through the  *)
(* visible lines of the frame.                                              *)

\* the T-states of a run: the 144 visible lines and the first T-states of line 144
MaxScanTStates == 65700

\* the writes that put sprite (ypos, xpos) into OAM entry i
SpriteWrites(i, ypos, xpos) ==
    <<WritePins(65024 + 4 * i, ypos), WritePins(65024 + 4 * i + 1, xpos)>>

\* sprites on the edges of the test: on line 0 only (16), xpos 0, never visible (0, 255,
\* 248, 160), on line 143 (159), above the screen for 8 rows but not for 16 (9)
EdgeSprites ==
    SpriteWrites(0, 16, 8) \o SpriteWrites(1, 17, 0) \o SpriteWrites(2, 17, 1)
    \o SpriteWrites(3, 0, 8) \o SpriteWrites(4, 255, 8) \o SpriteWrites(5, 248, 8)
    \o SpriteWrites(6, 159, 8) \o SpriteWrites(7, 160, 8) \o SpriteWrites(8, 9, 8)
    \o SpriteWrites(9, 24, 8) \o SpriteWrites(39, 17, 255)
\* thirteen sprites on the same lines: entries 0..11 and 39
CrowdedSprites ==
    SpriteWrites(0, 20, 8) \o SpriteWrites(1, 20, 16) \o SpriteWrites(2, 20, 24)
    \o SpriteWrites(3, 20, 32) \o SpriteWrites(4, 20, 40) \o SpriteWrites(5, 20, 48)
    \o SpriteWrites(6, 20, 56) \o SpriteWrites(7, 20, 64) \o SpriteWrites(8, 20, 72)
    \o SpriteWrites(9, 20, 80) \o SpriteWrites(10, 20, 88) \o SpriteWrites(11, 20, 96)
    \o SpriteWrites(39, 20, 104)
\* eleven sprites on the same lines and one with xpos 0 among them (entry 9); entry 7
\* starts four lines lower
MixedSprites ==
    SpriteWrites(0, 20, 8) \o SpriteWrites(1, 20, 16) \o SpriteWrites(2, 20, 24)
    \o SpriteWrites(3, 20, 32) \o SpriteWrites(4, 20, 40) \o SpriteWrites(5, 20, 48)
    \o SpriteWrites(6, 20, 56) \o SpriteWrites(7, 24, 64) \o SpriteWrites(8, 20, 72)
    \o SpriteWrites(9, 20, 0) \o SpriteWrites(10, 20, 88) \o SpriteWrites(11, 20, 96)
    \o SpriteWrites(12, 20, 104)
\* the CPU programs offered: a sprite layout, then LCDC with OBJ_SIZE clear or set
ScanScripts ==
    { sprites \o <<WritePins(65344, lcdc)>> :
        sprites \in {EdgeSprites, CrowdedSprites, MixedSprites}, lcdc \in {0, 4} }

InitScan ==
    /\ cpu = DefaultCpu
    /\ gen = InitGen
    /\ cpu_out = nop
    /\ panicked = FALSE
    /\ overflow_checks \in BOOLEAN
    /\ \E script \in ScanScripts : obs = [script |-> script]
    /\ RestBus
    /\ clocks = 0

\* the bus operation of the Chip::clock call that begins at T-state t: the next write of
\* the script, and reads elsewhere once it has run
ScriptOut(t) ==
    IF t % 4 = 0 /\ t \div 4 < Len(obs.script) THEN obs.script[t \div 4 + 1] ELSE nop

\* one T-state of Chip::clock: perform_io before the first of its four clock_t_state calls
ScanTState ==
    /\ ~panicked
    /\ ppu.t < MaxScanTStates
    /\ \E p1 \in {IF ppu.t % 4 = 0 THEN perform_io(ppu, ScriptOut(ppu.t), 255, 0).ppu ELSE ppu} :
       \E p2 \in {clock_t_state(p1, overflow_checks)} :
          IF p2.panic
          THEN /\ panicked' = TRUE
               /\ UNCHANGED <<ppu, cpu_out>>
          ELSE /\ ppu' = p2
               /\ cpu_out' = ScriptOut(ppu.t)
               /\ UNCHANGED panicked
    /\ UNCHANGED <<cpu, gen, overflow_checks, obs, cpu_input, interrupt_enable,
                   interrupt_request, timer, joypad, memory, rom, raised, pending, clocks>>

NextScan == ScanTState

SpecScan == InitScan /\ [][NextScan]_vars

\* OAM entry i is on the scanline: xpos > 0 and ypos <= scanline + 16 < ypos + height
OnScanline(p, i) ==
    /\ oam(p, i).xpos > 0
    /\ oam(p, i).ypos <= p.scanline + 16
    /\ p.scanline + 16 < oam(p, i).ypos + (IF Bit(p.lcdc, 2) = 1 THEN 16 ELSE 8)

\* the entries from index i on that are on the scanline, lowest index first, at most
\* `room` of them
RECURSIVE LowestOnScanline(_, _, _)
LowestOnScanline(p, i, room) ==
    IF i = 40 \/ room = 0 THEN <<>>
    ELSE IF OnScanline(p, i) THEN <<oam(p, i)>> \o LowestOnScanline(p, i + 1, room - 1)
    ELSE LowestOnScanline(p, i + 1, room)

\* the scan of a line that began after the CPU's last write has looked at all 40 entries
ScanDone ==
    /\ ~panicked
    /\ ppu.pos = "L299" /\ ppu.entry = 39
    /\ ppu.scanline >= 1

\* C38: the OAM scan of a scanline buffers at most 10 sprites, and they are exactly the
\* lowest-index OAM entries, up to 10 of them, that have xpos > 0 and
\* ypos <= scanline + 16 < ypos + spriteHeight (8, or 16 when LCDC.OBJ_SIZE is set), for
\* every ypos in 0..255; the scan takes 80 T-states.
C38_OamScanKeepsLowestTen ==
    /\ ~panicked
    /\ Len(ppu.sprite_buffer) <= 10
    /\ ppu.sprite_buffer_len = Len(ppu.sprite_buffer)
    /\ ScanDone => ppu.sprite_buffer = LowestOnScanline(ppu, 0, 10)
    /\ (ppu.t >= 1 /\ Line < 144) => (Dot < 80 <=> ppu.pos \in {"L298", "L299"})

\* line 4 of the crowded layout: thirteen sprites are on the line, the ten of entries
\* 0..9 are buffered
C38_Witness ==
    /\ ScanDone /\ ppu.scanline = 4
    /\ Cardinality({i \in 0..39 : OnScanline(ppu, i)}) = 13
    /\ Len(ppu.sprite_buffer) = 10
    /\ ppu.sprite_buffer[10] = oam(ppu, 9)

----------------------------------------------------------------------------
(* The drawing loop with video memory.  During line 0 the CPU writes the   *)
(* palette, the scroll and window registers, a row of the tile map and the  *)
(* rows of three tiles, one write per M-cycle; the PPU is then clocked      *)
(* through the next lines.                                                  *)

\* the T-states of a run: lines 0..3
MaxDrawTStates == 1824

\* the tiles of map row 0, as <<column, tile number>>; the other columns keep tile 0
MapRow ==
    <<<<0, 1>>, <<1, 2>>, <<2, 255>>, <<3, 1>>, <<4, 1>>, <<5, 2>>, <<7, 255>>, <<10, 2>>,
      <<11, 2>>, <<12, 1>>, <<15, 255>>, <<19, 1>>, <<20, 2>>, <<21, 255>>, <<22, 2>>,
      <<26, 1>>, <<30, 2>>, <<31, 255>>>>
\* the two bytes of a row of a tile, as <<tile number, low, high>>, and of the row below
TileRows == <<<<1, 27, 53>>, <<2, 198, 90>>, <<255, 255, 15>>>>
TileRowsBelow == <<<<1, 172, 226>>, <<2, 9, 129>>, <<255, 60, 195>>>>

\* the writes of map row 0 into the tile map that LCDC selects for the background
MapWrites(lcdc) ==
    [k \in 1..Len(MapRow) |->
        WritePins((IF Bit(lcdc, 3) = 1 THEN 39936 ELSE 38912) + MapRow[k][1], MapRow[k][2])]
\* the writes of one row of the three tiles, at the place LCDC gives the tile data
RowWrites(lcdc, rows, row) ==
    LET at(tile) == (IF Bit(lcdc, 4) = 1 THEN 32768 + tile * 16 ELSE 36864 + AsI8(tile) * 16)
                    + 2 * row
    IN [k \in 1..6 |-> IF k % 2 = 1 THEN WritePins(at(rows[(k + 1) \div 2][1]), rows[(k + 1) \div 2][2])
                       ELSE WritePins(at(rows[k \div 2][1]) + 1, rows[k \div 2][3])]

\* the CPU programs offered: LCDC, the identity palette, WX = 20, SCY and SCX, then
\* video memory for the tile rows that lines 1 and 2 show
DrawScripts ==
    { <<WritePins(65344, lcdc), WritePins(65351, 228), WritePins(65355, 20),
        WritePins(65346, scy), WritePins(65347, scx)>>
        \o MapWrites(lcdc) \o RowWrites(lcdc, TileRows, (scy + 1) % 8)
        \o RowWrites(lcdc, TileRowsBelow, (scy + 2) % 8) :
        scx \in {0, 5, 8, 13, 255}, scy \in {0, 5, 255}, lcdc \in {0, 8, 16, 32} }

InitDraw ==
    /\ cpu = DefaultCpu
    /\ gen = InitGen
    /\ cpu_out = nop
    /\ panicked = FALSE
    /\ overflow_checks \in BOOLEAN
    /\ \E script \in DrawScripts : obs = [script |-> script]
    /\ RestBus
    /\ clocks = 0

\* one T-state of Chip::clock: perform_io before the first of its four clock_t_state calls
DrawTState ==
    /\ ~panicked
    /\ ppu.t < MaxDrawTStates
    /\ \E p1 \in {IF ppu.t % 4 = 0 THEN perform_io(ppu, ScriptOut(ppu.t), 255, 0).ppu ELSE ppu} :
       \E p2 \in {clock_t_state(p1, overflow_checks)} :
          IF p2.panic
          THEN /\ panicked' = TRUE
               /\ UNCHANGED <<ppu, cpu_out>>
          ELSE /\ ppu' = p2
               /\ cpu_out' = ScriptOut(ppu.t)
               /\ UNCHANGED panicked
    /\ UNCHANGED <<cpu, gen, overflow_checks, obs, cpu_input, interrupt_enable,
                   interrupt_request, timer, joypad, memory, rom, raised, pending, clocks>>

NextDraw == DrawTState

SpecDraw == InitDraw /\ [][NextDraw]_vars

\* C39: in every reachable state the background pixel FIFO holds at most 16 pixels: the
\* fetcher pushes a tile row of 8 pixels only when the FIFO holds at most 8, so a push
\* never fails; a pixel is popped only while the FIFO holds more than 8; and pixels are
\* popped in the order they were pushed, also after clear().
C39_FifoBoundedAndInOrder ==
    /\ ppu.fifo_len <= 16
    /\ ppu.fifo_len = Len(ppu.queue)
    /\ ppu.push_len <= 8
    /\ ppu.pop_len # -1 => ppu.pop_len > 8
    /\ ppu.popped = ppu.due
    /\ \A n \in 1..Len(ppu.queue) : ppu.fifo_data[(ppu.fifo_i + n - 1) % 16] = ppu.queue[n]

\* line 2 has entered the window at x = 13, which cleared the FIFO, and window pixels
\* have been pushed and popped since: the front of the register is data[7], the pop that
\* made x = 40 found 15 pixels and gave colour 2, and 14 are left
C39_Witness ==
    /\ ~panicked /\ ppu.inside_window /\ ppu.scanline = 2 /\ ppu.x = 40
    /\ ppu.scx = 5 /\ ppu.scy = 0
    /\ ppu.fifo_i = 7 /\ ppu.pop_len = 15 /\ ppu.popped = 2
    /\ ppu.queue = <<3, 0, 1, 1, 2, 0, 3, 2, 3, 0, 1, 1, 2, 0>>

\* the colour id shown for the background pixel at column col and row `row` of the
\* 256x256 background: the tile of the 32x32 map that LCDC.BG_TILEMAP_AREA selects, its
\* row in the tile data that LCDC.BG_TILE_DATA_AREA selects, the bit pair of the column,
\* through BGP
BgPixel(p, col, row) ==
    LET tile == MemRead(p.mem, (IF Bit(p.lcdc, 3) = 1 THEN 39936 ELSE 38912)
                               + (row \div 8) * 32 + (col \div 8))
        at == (IF Bit(p.lcdc, 4) = 1 THEN 32768 + tile * 16 ELSE 36864 + AsI8(tile) * 16)
              + 2 * (row % 8)
        bit == 7 - (col % 8)
        c == 2 * Bit(MemRead(p.mem, at + 1), bit) + Bit(MemRead(p.mem, at), bit)
    IN (p.bgp \div (4 ^ c)) % 4

\* a pixel of a line below line 0 has been drawn with the window disabled
DrawnBelow == Bit(ppu.lcdc, 5) = 0 /\ ppu.put.x >= 0 /\ ppu.put.y >= 1

\* C36: with the window disabled, the pixel drawn at screen column x (0..159) of line LY
\* is the background pixel at column (SCX + x) mod 256 and row (SCY + LY) mod 256 of the
\* selected 32x32 tile map, for every SCX and SCY: the first fetched tile is map column
\* SCX / 8 and exactly the first SCX mod 8 pixels of the line are discarded.
C36_BackgroundScrolls ==
    /\ ~panicked
    /\ DrawnBelow =>
          ppu.put.color = BgPixel(ppu, (ppu.scx + ppu.put.x) % 256, (ppu.scy + ppu.put.y) % 256)
====
